---- MODULE Spec2Model ----
(***************************************************************************)
(* A model of the AI Hackathon Judge: the Leaderboard                     *)
(* (src/utils/leaderboard.py), the ScoringEngine                          *)
(* (src/models/scoring_engine.py) and the FeedbackGenerator               *)
(* (src/models/feedback_generator.py).                                    *)
(*                                                                         *)
(* Numbers.  Scores that the program rounds to one decimal place          *)
(* (raw_score, final_score) are integers counting tenths of a point.      *)
(* Criterion scores are whole points.  Quantities the program keeps       *)
(* unrounded are exact rationals, a record [n |-> numerator,              *)
(* d |-> denominator]; binary floating-point representation error is not  *)
(* modelled, and round(x, 1) is Python's documented round-half-to-even.   *)
(***************************************************************************)
EXTENDS Integers, Sequences, FiniteSets, TLC

VARIABLES
    \* ---- one Leaderboard instance and its JSON store -------------------
    projects,       \* Leaderboard.projects: the list of entries
    store,          \* the file at storage_path: [kind, data]
    storage_path,   \* TRUE iff a storage path was given to __init__
    phase,          \* "new" (not constructed), "ready", "raised"
    ret,            \* the last call on the instance: [op, arg, value]
    clock,          \* datetime.now(): the next submitted_at stamp
    \* ---- app sessions, each with an instance over the same store -------
    sessions,       \* session -> [projects, pc, score]
    \* ---- one submission going through the pipeline ---------------------
    cur_project,    \* the HackathonProject, as the values the scorers read
    cur_score,      \* the ProjectScore
    float_err,      \* [raw, final]: the signs of the binary representation
                    \* errors of the two floats that are rounded
    pc,             \* the submission's position in the pipeline
    form_data,      \* the submitted form, as the values validation reads
    current_score   \* st.session_state.current_score: << >> is None

lbvars == <<projects, store, storage_path, phase, ret, clock>>
subvars == <<cur_project, cur_score, float_err, pc, form_data, current_score>>
vars == <<projects, store, storage_path, phase, ret, clock, sessions,
          cur_project, cur_score, float_err, pc, form_data, current_score>>

(***************************************************************************)
(* Bounds of the leaderboard model.                                        *)
(***************************************************************************)
MaxEntries == 3     \* entries a leaderboard holds at most
MaxAdds == 3        \* add_project calls in one behaviour

Titles == {"Alpha", "ALPHA", "Beta"}

\* str.lower() on the titles of the model.
Lower(t) == CASE t = "Alpha" -> "alpha"
              [] t = "ALPHA" -> "alpha"
              [] t = "Beta"  -> "beta"
              [] OTHER       -> t


(***************************************************************************)
(* FeedbackGenerator._determine_verdict on a final score in tenths:       *)
(* <<verdict, emoji>>.  VERDICT_THRESHOLDS minimum scores 85, 70, 50.      *)
(***************************************************************************)
WinnerMin == 85
StrongMin == 70
AverageMin == 50

\* a faulty variant: the thresholds are exclusive
determine_verdict_exclusive(final) ==
    IF final > WinnerMin * 10 THEN <<"Winner Material", "trophy">>
    ELSE IF final > StrongMin * 10 THEN <<"Strong Contender", "check">>
    ELSE IF final > AverageMin * 10 THEN <<"Average", "warning">>
    ELSE <<"Not Hackathon Ready", "cross">>

\* a faulty variant: the tiers read as the closed ranges min_score ..
\* max_score of the table, which leave 84.1 .. 84.9 and the like uncovered
determine_verdict_by_range(final) ==
    IF final >= WinnerMin * 10 /\ final <= 1000
    THEN <<"Winner Material", "trophy">>
    ELSE IF final >= StrongMin * 10 /\ final <= 840
    THEN <<"Strong Contender", "check">>
    ELSE IF final >= AverageMin * 10 /\ final <= 690
    THEN <<"Average", "warning">>
    ELSE <<"Not Hackathon Ready", "cross">>

determine_verdict(final) ==
    IF final >= WinnerMin * 10 THEN <<"Winner Material", "trophy">>
    ELSE IF final >= StrongMin * 10 THEN <<"Strong Contender", "check">>
    ELSE IF final >= AverageMin * 10 THEN <<"Average", "warning">>
    ELSE <<"Not Hackathon Ready", "cross">>

(***************************************************************************)
(* The fields of a ProjectScore that add_project reads.                    *)
(***************************************************************************)
MkResult(t, f, r) ==
    [ project_title |-> t, final_score |-> f, raw_score |-> r,
      innovation_score |-> r \div 10, technical_depth_score |-> r \div 10,
      problem_relevance_score |-> r \div 10, feasibility_score |-> r \div 10,
      scalability_score |-> r \div 10, ui_ux_score |-> r \div 10,
      real_world_impact_score |-> r \div 10,
      total_penalty |-> [n |-> 0, d |-> 1],
      verdict |-> determine_verdict(f)[1],
      verdict_emoji |-> determine_verdict(f)[2] ]

\* The scores given to add_project, final and raw score in tenths: the same
\* title twice, titles that differ in case only, full ties, a tie on the
\* final score alone and distinct final scores all occur.
Results ==
    { MkResult("Alpha", 880, 880), MkResult("ALPHA", 880, 900),
      MkResult("Beta", 880, 880), MkResult("Beta", 610, 610) }

(***************************************************************************)
(* Leaderboard._sort: list.sort(key=(final_score, raw_score),             *)
(* reverse=True).  Python's sort is stable, and reverse=True keeps the     *)
(* original order of elements with equal keys.                             *)
(***************************************************************************)
\* key(a) > key(b) on the tuples (final_score, raw_score)
KeyGreater(a, b) ==
    \/ a.final_score > b.final_score
    \/ a.final_score = b.final_score /\ a.raw_score > b.raw_score

\* e placed behind every element whose key is >= e's key
RECURSIVE InsertByKey(_, _)
InsertByKey(s, e) ==
    IF s = << >> THEN <<e>>
    ELSE IF KeyGreater(e, Head(s)) THEN <<e>> \o s
    ELSE <<Head(s)>> \o InsertByKey(Tail(s), e)

RECURSIVE SortFrom(_, _)
SortFrom(done, rest) ==
    IF rest = << >> THEN done
    ELSE SortFrom(InsertByKey(done, Head(rest)), Tail(rest))

\* A sort whose key forgets raw_score.
RECURSIVE InsertByFinal(_, _)
InsertByFinal(s, e) ==
    IF s = << >> THEN <<e>>
    ELSE IF e.final_score > Head(s).final_score THEN <<e>> \o s
    ELSE <<Head(s)>> \o InsertByFinal(Tail(s), e)

RECURSIVE sort_by_final_only(_)
sort_by_final_only(list) ==
    IF list = << >> THEN << >>
    ELSE InsertByFinal(sort_by_final_only(SubSeq(list, 1, Len(list) - 1)),
                       list[Len(list)])

\* A faulty variant: sorted ascending, then reversed, which turns the
\* order of equal keys around.
RECURSIVE InsertAscending(_, _)
InsertAscending(s, e) ==
    IF s = << >> THEN <<e>>
    ELSE IF KeyGreater(Head(s), e) THEN <<e>> \o s
    ELSE <<Head(s)>> \o InsertAscending(Tail(s), e)

RECURSIVE sort_then_reverse(_)
sort_then_reverse(list) ==
    IF list = << >> THEN << >>
    ELSE LET rest == sort_then_reverse(SubSeq(list, 1, Len(list) - 1))
             up == InsertAscending(
                     [i \in 1 .. Len(rest) |-> rest[Len(rest) + 1 - i]],
                     list[Len(list)])
         IN [i \in 1 .. Len(up) |-> up[Len(up) + 1 - i]]

sort(list) == SortFrom(<< >>, list)

(***************************************************************************)
(* The JSON store.  kind says what open() and json.load() make of the     *)
(* file: "missing" (os.path.exists is false), "unreadable" (open raises   *)
(* IOError), "bad_json" (json.JSONDecodeError), "bad_encoding" (the bytes  *)
(* are not UTF-8: UnicodeDecodeError), "bad_shape" (valid JSON that is not *)
(* a list of entries, e.g. {} or null) and "list" (a list of entries).     *)
(* writable is FALSE when open(path, 'w') raises IOError.                  *)
(***************************************************************************)
ListStore(list) == [kind |-> "list", data |-> list, writable |-> TRUE]

BrokenStores ==
    { [kind |-> k, data |-> << >>, writable |-> TRUE] :
        k \in {"missing", "bad_json", "bad_encoding", "bad_shape"} }
    \cup { [kind |-> "unreadable", data |-> << >>, writable |-> w] :
             w \in BOOLEAN }

\* The entry add_project builds (project_data), stamped with datetime.now().
Entry(score, now) ==
    [ project_title |-> score.project_title,
      final_score |-> score.final_score,
      raw_score |-> score.raw_score,
      innovation_score |-> score.innovation_score,
      technical_depth_score |-> score.technical_depth_score,
      problem_relevance_score |-> score.problem_relevance_score,
      feasibility_score |-> score.feasibility_score,
      scalability_score |-> score.scalability_score,
      ui_ux_score |-> score.ui_ux_score,
      real_world_impact_score |-> score.real_world_impact_score,
      total_penalty |-> score.total_penalty,
      verdict |-> score.verdict,
      verdict_emoji |-> score.verdict_emoji,
      submitted_at |-> now ]

\* Stores an earlier run of the program left behind: sorted lists.
EarlierEntries ==
    <<Entry(MkResult("Alpha", 880, 900), -1),
      Entry(MkResult("Beta", 610, 610), 0)>>

EarlierStores == { ListStore(<< >>), ListStore(EarlierEntries) }

(***************************************************************************)
(* Leaderboard._load: the outcome of the try block.  "raised" is an        *)
(* exception that the except clause (json.JSONDecodeError, IOError) does   *)
(* not catch, so that it leaves _load and __init__.                        *)
(***************************************************************************)
load(st) ==
    CASE st.kind = "list"         -> [outcome |-> "ok", projects |-> sort(st.data)]
      [] st.kind = "unreadable"   -> [outcome |-> "ok", projects |-> << >>]
      [] st.kind = "bad_json"     -> [outcome |-> "ok", projects |-> << >>]
      [] st.kind = "bad_encoding" -> [outcome |-> "raised", projects |-> << >>]
      [] st.kind = "bad_shape"    -> [outcome |-> "raised", projects |-> << >>]
      [] OTHER                    -> [outcome |-> "ok", projects |-> << >>]

(***************************************************************************)
(* Leaderboard._save: json.dump(self.projects) over the file.  The result  *)
(* is the store after the call and whether open(path, 'w') raised.         *)
(***************************************************************************)
save(path, st, list) ==
    IF ~path THEN [outcome |-> "ok", store |-> st]
    ELSE IF ~st.writable THEN [outcome |-> "raised", store |-> st]
    ELSE [outcome |-> "ok", store |-> ListStore(list)]

Call(op, arg, value) == [op |-> op, arg |-> arg, value |-> value]

(***************************************************************************)
(* Leaderboard.__init__(storage_path): also a later session constructing   *)
(* a new instance over the same store.                                     *)
(***************************************************************************)
LeaderboardInit ==
    /\ phase \in {"new", "ready"}
    /\ LET exists == storage_path /\ store.kind # "missing"
           got == IF exists THEN load(store)
                  ELSE [outcome |-> "ok", projects |-> << >>]
       IN /\ projects' = got.projects
          /\ phase' = IF got.outcome = "ok" THEN "ready" ELSE "raised"
          /\ ret' = Call("__init__", "", got.outcome)
    /\ UNCHANGED <<store, storage_path, clock, sessions, subvars>>

\* The 1-based position of the first entry whose title equals t, else dflt.
RECURSIVE FirstIndex(_, _, _, _)
FirstIndex(list, i, Match(_), dflt) ==
    IF i > Len(list) THEN dflt
    ELSE IF Match(list[i]) THEN i
    ELSE FirstIndex(list, i + 1, Match, dflt)

\* An add_project that replaces the entries of the same title.
add_project_replacing(score) ==
    /\ phase = "ready"
    /\ Len(projects) < MaxEntries
    /\ clock <= MaxAdds
    /\ LET SameTitle(p) == p.project_title = score.project_title
           kept == SelectSeq(projects, LAMBDA p : ~SameTitle(p))
           sorted == sort(Append(kept, Entry(score, clock)))
           saved == save(storage_path, store, sorted)
       IN /\ projects' = sorted
          /\ store' = saved.store
          /\ ret' = Call("add_project", score.project_title,
                         IF saved.outcome = "raised" THEN -1
                         ELSE FirstIndex(sorted, 1, SameTitle, Len(sorted)))
    /\ clock' = clock + 1
    /\ UNCHANGED <<storage_path, phase, sessions, subvars>>

(***************************************************************************)
(* Leaderboard.add_project(score) -> rank                                  *)
(***************************************************************************)
\* A faulty variant: the new entry is appended and the list is not sorted.
add_project_unsorted(score) ==
    /\ phase = "ready"
    /\ Len(projects) < MaxEntries
    /\ clock <= MaxAdds
    /\ LET appended == Append(projects, Entry(score, clock))
           saved == save(storage_path, store, appended)
           SameTitle(p) == p.project_title = score.project_title
       IN /\ projects' = appended
          /\ store' = saved.store
          /\ ret' = Call("add_project", score.project_title,
                         IF saved.outcome = "raised" THEN -1
                         ELSE FirstIndex(appended, 1, SameTitle, Len(appended)))
    /\ clock' = clock + 1
    /\ UNCHANGED <<storage_path, phase, sessions, subvars>>

add_project(score) ==
    /\ phase = "ready"
    /\ Len(projects) < MaxEntries
    /\ clock <= MaxAdds
    /\ LET sorted == sort(Append(projects, Entry(score, clock)))
           saved == save(storage_path, store, sorted)
           SameTitle(p) == p.project_title = score.project_title
       IN /\ projects' = sorted
          /\ store' = saved.store
          /\ ret' = Call("add_project", score.project_title,
                         IF saved.outcome = "raised" THEN -1
                         ELSE FirstIndex(sorted, 1, SameTitle, Len(sorted)))
    /\ clock' = clock + 1
    /\ UNCHANGED <<storage_path, phase, sessions, subvars>>

(***************************************************************************)
(* Leaderboard.get_rankings(limit): limit is None, written -1 here, or an  *)
(* integer >= 0.  The slice is taken only when limit is truthy.            *)
(***************************************************************************)
MaxLimit == 2

Limits == -1 .. MaxLimit

Slice(list, limit) ==
    IF limit = -1 THEN list
    ELSE IF limit = 0 THEN list
    ELSE SubSeq(list, 1, IF limit < Len(list) THEN limit ELSE Len(list))

\* project.copy() with the two annotations
WithRank(p, i) ==
    [ f \in DOMAIN p \cup {"rank", "is_top_3"} |->
        IF f = "rank" THEN i
        ELSE IF f = "is_top_3" THEN (i - 1 < 3)
        ELSE p[f] ]

rankings(list, limit) ==
    LET shown == Slice(list, limit)
    IN [i \in 1 .. Len(shown) |-> WithRank(shown[i], i)]

get_rankings(limit) ==
    /\ phase = "ready"
    /\ projects' = sort(projects)
    /\ ret' = Call("get_rankings", limit, rankings(projects', limit))
    /\ UNCHANGED <<store, storage_path, phase, clock, sessions, subvars>>

(***************************************************************************)
(* Leaderboard.get_project_rank(title): case-insensitive, None as 0.        *)
(***************************************************************************)
get_project_rank(title) ==
    /\ phase = "ready"
    /\ projects' = sort(projects)
    /\ LET SameLower(p) == Lower(p.project_title) = Lower(title)
       IN ret' = Call("get_project_rank", title,
                      FirstIndex(projects', 1, SameLower, 0))
    /\ UNCHANGED <<store, storage_path, phase, clock, sessions, subvars>>

(***************************************************************************)
(* Leaderboard.clear()                                                     *)
(***************************************************************************)
clear ==
    /\ phase = "ready"
    /\ LET saved == save(storage_path, store, << >>)
       IN /\ projects' = << >>
          /\ store' = saved.store
          /\ ret' = Call("clear", "", saved.outcome)
    /\ UNCHANGED <<storage_path, phase, clock, sessions, subvars>>

(***************************************************************************)
(* Leaderboard.remove_project(title) -> bool                               *)
(***************************************************************************)
Pop(list, i) == SubSeq(list, 1, i - 1) \o SubSeq(list, i + 1, Len(list))

\* A remove_project that forgets to persist.
remove_project_unsaved(title) ==
    /\ phase = "ready"
    /\ LET SameLower(p) == Lower(p.project_title) = Lower(title)
           i == FirstIndex(projects, 1, SameLower, 0)
       IN IF i = 0
          THEN /\ ret' = Call("remove_project", title, "False")
               /\ UNCHANGED <<projects, store>>
          ELSE /\ projects' = Pop(projects, i)
               /\ store' = store
               /\ ret' = Call("remove_project", title, "True")
    /\ UNCHANGED <<storage_path, phase, clock, sessions, subvars>>

\* A faulty variant: every entry of the title is taken out.
remove_project_every(title) ==
    /\ phase = "ready"
    /\ LET SameLower(p) == Lower(p.project_title) = Lower(title)
           kept == SelectSeq(projects, LAMBDA p : ~SameLower(p))
           saved == save(storage_path, store, kept)
       IN IF kept = projects
          THEN /\ ret' = Call("remove_project", title, "False")
               /\ UNCHANGED <<projects, store>>
          ELSE /\ projects' = kept
               /\ store' = saved.store
               /\ ret' = Call("remove_project", title,
                              IF saved.outcome = "raised" THEN "raised" ELSE "True")
    /\ UNCHANGED <<storage_path, phase, clock, sessions, subvars>>

remove_project(title) ==
    /\ phase = "ready"
    /\ LET SameLower(p) == Lower(p.project_title) = Lower(title)
           i == FirstIndex(projects, 1, SameLower, 0)
           saved == save(storage_path, store, Pop(projects, i))
       IN IF i = 0
          THEN /\ ret' = Call("remove_project", title, "False")
               /\ UNCHANGED <<projects, store>>
          ELSE /\ projects' = Pop(projects, i)
               /\ store' = saved.store
               /\ ret' = Call("remove_project", title,
                              IF saved.outcome = "raised" THEN "raised" ELSE "True")
    /\ UNCHANGED <<storage_path, phase, clock, sessions, subvars>>

(***************************************************************************)
(* Leaderboard.explain_winner(): what the returned sentence says.          *)
(***************************************************************************)
CriterionFields ==
    << "innovation_score", "technical_depth_score", "problem_relevance_score",
       "feasibility_score", "scalability_score", "ui_ux_score",
       "real_world_impact_score" >>

\* advantages.sort(key=lambda x: x[1], reverse=True): stable, descending
RECURSIVE InsertByDiff(_, _)
InsertByDiff(s, e) ==
    IF s = << >> THEN <<e>>
    ELSE IF e.diff > Head(s).diff THEN <<e>> \o s
    ELSE <<Head(s)>> \o InsertByDiff(Tail(s), e)

RECURSIVE SortByDiff(_, _)
SortByDiff(done, rest) ==
    IF rest = << >> THEN done
    ELSE SortByDiff(InsertByDiff(done, Head(rest)), Tail(rest))

Advantages(winner, runner_up) ==
    LET all == [i \in 1 .. 7 |->
                  [name |-> CriterionFields[i],
                   diff |-> winner[CriterionFields[i]]
                            - runner_up[CriterionFields[i]]]]
        pos == SelectSeq(all, LAMBDA a : a.diff > 0)
    IN SortByDiff(<< >>, pos)

\* a < b on exact rationals
RatLess(a, b) == a.n * b.d < b.n * a.d

(***************************************************************************)
(* winner["final_score"] - runner_up["final_score"] is a subtraction of    *)
(* doubles.  Both scores are the doubles nearest to a number of tenths, a  *)
(* and b here, and the difference prints as (a - b) / 10 with one decimal; *)
(* compared with 5, 10 and 20 it behaves as that number does, except that  *)
(* at a gap of exactly 5.0, 10.0 or 20.0 it is less than the gap for the   *)
(* scores a listed by FloatShort (70.1 - 50.1 is 19.999999999999993).      *)
(***************************************************************************)
FloatShort(a, gap) ==
    LET In(lo, hi, r) == lo <= a /\ a <= hi /\ a % 5 = r
    IN \/ gap = 50 /\ (In(82, 127, 2) \/ In(164, 209, 4) \/ In(323, 368, 3)
                       \/ In(641, 686, 1))
       \/ gap = 100 /\ (In(164, 259, 4) \/ In(323, 418, 3) \/ In(641, 736, 1))
       \/ gap = 200 /\ (In(323, 518, 3) \/ In(641, 836, 1))

float_sub(a, b) == [tenths |-> a - b, short |-> FloatShort(a, a - b)]

\* score_diff >= points
DiffAtLeast(score_diff, points) ==
    \/ score_diff.tenths > 10 * points
    \/ score_diff.tenths = 10 * points /\ ~score_diff.short

Intensity(score_diff) ==
    IF DiffAtLeast(score_diff, 20) THEN "dominating"
    ELSE IF DiffAtLeast(score_diff, 10) THEN "convincing"
    ELSE IF DiffAtLeast(score_diff, 5) THEN "solid"
    ELSE "narrow"

explanation(list) ==
    IF Len(list) < 1 THEN [kind |-> "no projects"]
    ELSE IF Len(list) = 1
    THEN [kind |-> "only submission", winner |-> list[1].project_title,
          final_score |-> list[1].final_score, verdict |-> list[1].verdict]
    ELSE LET winner == list[1]
             runner_up == list[2]
             score_diff == float_sub(winner.final_score, runner_up.final_score)
             advantages == Advantages(winner, runner_up)
         IN [kind |-> "lead", winner |-> winner.project_title,
             runner_up |-> runner_up.project_title,
             score_diff |-> score_diff.tenths,     \* printed with :.1f
             intensity |-> Intensity(score_diff),
             top_advantages |->
                 [i \in 1 .. (IF Len(advantages) < 3 THEN Len(advantages) ELSE 3)
                    |-> advantages[i].name],
             fewer_deductions |->
                 RatLess(winner.total_penalty, runner_up.total_penalty)]

explain_winner ==
    /\ phase = "ready"
    /\ ret' = Call("explain_winner", "", explanation(projects))
    /\ UNCHANGED <<projects, store, storage_path, phase, clock, sessions, subvars>>

(***************************************************************************)
(* Leaderboard.get_statistics()                                            *)
(***************************************************************************)
\* round(n / d) to the nearest integer, ties to even (n >= 0, d > 0)
RoundDiv(n, d) ==
    LET q == n \div d
        r == n % d
    IN IF 2 * r < d THEN q
       ELSE IF 2 * r > d THEN q + 1
       ELSE IF q % 2 = 0 THEN q ELSE q + 1

RECURSIVE SumFinal(_)
SumFinal(list) ==
    IF list = << >> THEN 0 ELSE Head(list).final_score + SumFinal(Tail(list))

Finals(list) == { list[i].final_score : i \in 1 .. Len(list) }
Max(S) == CHOOSE x \in S : \A y \in S : y <= x
Min(S) == CHOOSE x \in S : \A y \in S : x <= y
Count(list, Test(_)) == Cardinality({ i \in 1 .. Len(list) : Test(list[i]) })

statistics(list) ==
    IF list = << >>
    THEN [ total_projects |-> 0, average_score |-> 0, highest_score |-> 0,
           lowest_score |-> 0, score_range |-> 0 ]
    ELSE [ total_projects |-> Len(list),
           average_score |-> RoundDiv(SumFinal(list), Len(list)),
           highest_score |-> Max(Finals(list)),
           lowest_score |-> Min(Finals(list)),
           \* a difference of doubles; see float_sub
           score_range |-> float_sub(Max(Finals(list)), Min(Finals(list))),
           winner_material_count |->
               Count(list, LAMBDA p : p.final_score >= 850),
           strong_contender_count |->
               Count(list, LAMBDA p : 700 <= p.final_score /\ p.final_score < 850),
           average_count |->
               Count(list, LAMBDA p : 500 <= p.final_score /\ p.final_score < 700),
           not_ready_count |->
               Count(list, LAMBDA p : p.final_score < 500) ]

get_statistics ==
    /\ phase = "ready"
    /\ ret' = Call("get_statistics", "", statistics(projects))
    /\ UNCHANGED <<projects, store, storage_path, phase, clock, sessions, subvars>>

(***************************************************************************)
(* Leaderboard.get_comparison(project1_title, project2_title): the loop    *)
(* has no break, so each name binds to the last matching entry.            *)
(***************************************************************************)
RECURSIVE LastIndex(_, _, _)
LastIndex(list, i, title) ==
    IF i < 1 THEN 0
    ELSE IF Lower(list[i].project_title) = Lower(title) THEN i
    ELSE LastIndex(list, i - 1, title)

comparison(list, t1, t2) ==
    LET i1 == LastIndex(list, Len(list), t1)
        i2 == LastIndex(list, Len(list), t2)
    IN IF i1 = 0 \/ i2 = 0 THEN [error |-> "One or both projects not found"]
       ELSE LET project1 == list[i1]
                project2 == list[i2]
            IN [ project1 |-> project1.project_title,
                 project2 |-> project2.project_title,
                 score_difference |-> project1.final_score - project2.final_score,
                 winner |-> IF project1.final_score > project2.final_score
                            THEN project1.project_title
                            ELSE IF project2.final_score > project1.final_score
                            THEN project2.project_title
                            ELSE "Tie",
                 criteria_comparison |->
                     [i \in 1 .. 7 |-> project1[CriterionFields[i]]
                                       - project2[CriterionFields[i]]] ]

get_comparison(t1, t2) ==
    /\ phase = "ready"
    /\ ret' = Call("get_comparison", <<t1, t2>>, comparison(projects, t1, t2))
    /\ UNCHANGED <<projects, store, storage_path, phase, clock, sessions, subvars>>

(***************************************************************************)
(* HackathonProject.  The scorers read a project through substring tests,  *)
(* counts of lexicon phrases and word counts; a project of the model is    *)
(* the record of those readings:                                           *)
(*   team_size, tech_count (items of tech_stack.split(',')), demo_link     *)
(*   (TRUE iff a demo link is given), the word count of each text field,   *)
(*   and for each rule of a scorer the count or test it takes.             *)
(* buzz_occ gives, for each buzzword of BuzzLex, its occurrences in the    *)
(* text (they stand in the problem statement).                             *)
(***************************************************************************)
\* The part of settings.BUZZWORDS the model's texts use.
BuzzLex ==
    {"revolutionary", "game-changing", "disruptive", "paradigm shift",
     "groundbreaking", "synergy"}

\* len(phrase.split())
PhraseWords(b) == IF b = "paradigm shift" THEN 2 ELSE 1

Clamp(x) == IF x < 0 THEN 0 ELSE IF x > 100 THEN 100 ELSE x

AtLeast1(x) == IF x < 1 THEN 1 ELSE x

\* HackathonProject.get_word_count: len(get_all_text().split())
get_word_count(p) ==
    p.title_words + p.problem_words + p.solution_words + p.tech_words
    + p.innovation_words + p.target_words + p.future_words

\* "; ".join(reasons) if reasons else default, kept as the list of reasons
Explain(reasons, default) == IF reasons = << >> THEN <<default>> ELSE reasons

Reason(cond, text) == IF cond THEN <<text>> ELSE << >>

(***************************************************************************)
(* ScoringEngine._determine_complexity                                     *)
(***************************************************************************)
\* a faulty variant: "advanced" asks for a large team and a long stack
determine_complexity_both(p) ==
    IF p.team_size <= 2 /\ p.tech_count <= 3 THEN "beginner"
    ELSE IF p.team_size >= 4 /\ p.tech_count >= 6 THEN "advanced"
    ELSE "intermediate"

determine_complexity(p) ==
    IF p.team_size <= 2 /\ p.tech_count <= 3 THEN "beginner"
    ELSE IF p.team_size >= 4 \/ p.tech_count >= 6 THEN "advanced"
    ELSE "intermediate"

\* COMPLEXITY_LEVELS[level]["score_multiplier"]: 1.1, 1.0, 0.95
\* a faulty variant: a beginner team's score is raised by half
score_multiplier_generous(level) ==
    CASE level = "beginner"     -> [n |-> 30, d |-> 20]
      [] level = "intermediate" -> [n |-> 20, d |-> 20]
      [] level = "advanced"     -> [n |-> 19, d |-> 20]

\* COMPLEXITY_LEVELS[level]["score_multiplier"]: 1.1, 1.0, 0.95
score_multiplier(level) ==
    CASE level = "beginner"     -> [n |-> 22, d |-> 20]
      [] level = "intermediate" -> [n |-> 20, d |-> 20]
      [] level = "advanced"     -> [n |-> 19, d |-> 20]

\* a faulty variant: the weights of innovation and technical depth swapped
weight_swapped ==
    [ innovation |-> 20, technical_depth |-> 25, problem_relevance |-> 15,
      feasibility |-> 15, scalability |-> 10, ui_ux |-> 10,
      real_world_impact |-> 5 ]

\* SCORING_CRITERIA[criterion]["weight"]
weight ==
    [ innovation |-> 25, technical_depth |-> 20, problem_relevance |-> 15,
      feasibility |-> 15, scalability |-> 10, ui_ux |-> 10,
      real_world_impact |-> 5 ]

(***************************************************************************)
(* The seven scorers: [score, explanation].                                *)
(***************************************************************************)
score_innovation(p) ==
    LET strong == p.innovation_count >= 3
        some == ~strong /\ p.innovation_count >= 1
        detailed == p.innovation_words >= 50
        differs == p.diff_count >= 2
        generic == p.generic_count >= 2
        points == 50 + (IF strong THEN 25 ELSE IF some THEN 15 ELSE 0)
                     + (IF detailed THEN 10 ELSE 0)
                     + (IF differs THEN 10 ELSE 0)
                     - (IF generic THEN 15 ELSE 0)
        reasons == Reason(strong, "Strong innovation signals detected")
                   \o Reason(some, "Some innovative elements present")
                   \o Reason(detailed, "Detailed innovation explanation")
                   \o Reason(differs, "Clear differentiation from existing solutions")
                   \o Reason(generic, "Innovation description is too generic")
    IN [score |-> Clamp(points),
        explanation |-> Explain(reasons, "Average innovation level")]

score_technical_depth(p) ==
    LET n == p.tech_signal_count
        c == p.tech_categories_used
        points == 40 + (IF n >= 10 THEN 35 ELSE IF n >= 5 THEN 25
                        ELSE IF n >= 2 THEN 10 ELSE 0)
                     + (IF c >= 4 THEN 15 ELSE IF c >= 2 THEN 8 ELSE 0)
                     + (IF p.sol_architecture THEN 5 ELSE 0)
                     + (IF p.sol_data_api THEN 5 ELSE 0)
        reasons ==
            << IF n >= 10
               THEN "Excellent technical depth with specific implementation details"
               ELSE IF n >= 5 THEN "Good technical vocabulary and understanding"
               ELSE IF n >= 2 THEN "Basic technical concepts mentioned"
               ELSE "Lacks technical specificity" >>
            \o Reason(c >= 4, "Well-rounded tech stack covering multiple domains")
            \o Reason(c < 4 /\ c >= 2, "Reasonable tech stack variety")
            \o Reason(p.sol_architecture, "Discusses system architecture")
            \o Reason(p.sol_data_api, "Mentions data/API layer")
    IN [score |-> Clamp(points),
        explanation |-> Explain(reasons, "Limited technical depth")]

score_problem_relevance(p) ==
    LET w == p.problem_words
        points == 50 + (IF w >= 75 THEN 15 ELSE IF w >= 40 THEN 8 ELSE 0)
                     + (IF p.pain_count >= 3 THEN 15
                        ELSE IF p.pain_count >= 1 THEN 8 ELSE 0)
                     + (IF p.specific_count >= 2 THEN 10
                        ELSE IF p.specific_count >= 1 THEN 5 ELSE 0)
                     + (IF p.has_statistics THEN 10 ELSE 0)
        reasons ==
            Reason(w >= 75, "Thorough problem description")
            \o Reason(w < 75 /\ w >= 40, "Adequate problem description")
            \o Reason(p.pain_count >= 3, "Clear articulation of pain points")
            \o Reason(p.pain_count < 3 /\ p.pain_count >= 1,
                      "Some pain points identified")
            \o Reason(p.specific_count >= 2, "Well-defined target audience")
            \o Reason(p.specific_count = 1, "Target audience mentioned")
            \o Reason(p.has_statistics, "Includes supporting data/statistics")
    IN [score |-> Clamp(points),
        explanation |-> Explain(reasons, "Problem relevance unclear")]

\* a faulty variant: the demo bonus given when the link is missing
score_feasibility_demo_inverted(p) ==
    LET n == p.feasibility_count
        overreach == p.ambitious /\ ~p.demo_link
        points == 45 + (IF n >= 5 THEN 30 ELSE IF n >= 2 THEN 15 ELSE 0)
                     + (IF ~p.demo_link THEN 20 ELSE 0)
                     + (IF p.mentions_docs THEN 5 ELSE 0)
                     + (IF p.scope_indicator THEN 10 ELSE 0)
                     - (IF overreach THEN 10 ELSE 0)
    IN [score |-> Clamp(points),
        explanation |-> <<"Feasibility not clearly demonstrated">>]

score_feasibility(p) ==
    LET n == p.feasibility_count
        overreach == p.ambitious /\ ~p.demo_link
        points == 45 + (IF n >= 5 THEN 30 ELSE IF n >= 2 THEN 15 ELSE 0)
                     + (IF p.demo_link THEN 20 ELSE 0)
                     + (IF p.mentions_docs THEN 5 ELSE 0)
                     + (IF p.scope_indicator THEN 10 ELSE 0)
                     - (IF overreach THEN 10 ELSE 0)
        reasons ==
            Reason(n >= 5, "Strong evidence of practical implementation")
            \o Reason(n < 5 /\ n >= 2, "Some practical considerations mentioned")
            \o Reason(p.demo_link, "Working demo available")
            \o Reason(p.mentions_docs, "Documentation mentioned")
            \o Reason(p.scope_indicator, "Realistic scope with phased approach")
            \o Reason(overreach, "Ambitious scope without demo evidence")
    IN [score |-> Clamp(points),
        explanation |-> Explain(reasons, "Feasibility not clearly demonstrated")]

score_scalability(p) ==
    LET n == p.scale_count
        points == 45 + (IF n >= 4 THEN 30 ELSE IF n >= 2 THEN 15 ELSE 0)
                     + (IF p.future_words >= 60 THEN 10 ELSE 0)
                     + (IF p.extend_count >= 2 THEN 10 ELSE 0)
                     + (IF p.sustain THEN 5 ELSE 0)
        reasons ==
            Reason(n >= 4, "Excellent scalability architecture")
            \o Reason(n < 4 /\ n >= 2, "Some scalability considerations")
            \o Reason(p.future_words >= 60, "Detailed future roadmap")
            \o Reason(p.extend_count >= 2, "Good extensibility considerations")
            \o Reason(p.sustain, "Business sustainability considered")
    IN [score |-> Clamp(points),
        explanation |-> Explain(reasons, "Scalability plan not evident")]

score_ui_ux(p) ==
    LET n == p.ux_count
        points == 50 + (IF n >= 5 THEN 25 ELSE IF n >= 2 THEN 12 ELSE 0)
                     + (IF p.demo_link THEN 15 ELSE 0)
                     + (IF p.frontend_tech THEN 10 ELSE 0)
                     + (IF p.accessibility THEN 10 ELSE 0)
        reasons ==
            Reason(n >= 5, "Strong UX focus with user-centric approach")
            \o Reason(n < 5 /\ n >= 2, "Some UX considerations mentioned")
            \o Reason(p.demo_link, "Demo available for visual assessment")
            \o Reason(p.frontend_tech, "Modern frontend technology stack")
            \o Reason(p.accessibility, "Accessibility considered")
    IN [score |-> Clamp(points),
        explanation |-> Explain(reasons, "UI/UX details not provided")]

score_real_world_impact(p) ==
    LET n == p.impact_count
        points == 50 + (IF n >= 6 THEN 25 ELSE IF n >= 3 THEN 12 ELSE 0)
                     + (IF p.quantified_impact THEN 15 ELSE 0)
                     + (IF p.target_words >= 30 THEN 10 ELSE 0)
        reasons ==
            Reason(n >= 6, "Clear articulation of real-world benefits")
            \o Reason(n < 6 /\ n >= 3, "Some impact considerations")
            \o Reason(p.quantified_impact, "Quantified impact metrics")
            \o Reason(p.target_words >= 30, "Well-defined beneficiary group")
    IN [score |-> Clamp(points),
        explanation |-> Explain(reasons, "Real-world impact not clearly defined")]

(***************************************************************************)
(* Penalties.  A float of the code is an exact rational [n, d] here; all   *)
(* penalties of one project have the denominator PenaltyUnit(p), so that   *)
(* they add and compare by their numerators.                               *)
(***************************************************************************)
MAX_BUZZWORD_DENSITY == 5
BUZZWORD_PENALTY == 2
VAGUENESS_PENALTY == [n |-> 3, d |-> 2]
OVERCLAIM_PENALTY == 3
AI_GENERATED_PENALTY == 5

PenaltyUnit(p) == 2 * AtLeast1(get_word_count(p))

Points(k, p) == [n |-> k * PenaltyUnit(p), d |-> PenaltyUnit(p)]

RatMin(a, b) == IF a.n * b.d <= b.n * a.d THEN a ELSE b

\* sum(1 for bw in self.buzzwords if bw in text)
buzzword_count(p) == Cardinality({b \in BuzzLex : p.buzz_occ[b] > 0})

\* a faulty variant: the cap of 15 left out
calculate_buzzword_penalty_uncapped(p) ==
    LET wc == AtLeast1(get_word_count(p))
        count == buzzword_count(p)
        excess == 100 * count - MAX_BUZZWORD_DENSITY * wc
    IN IF excess > 0
       THEN [n |-> 2 * excess * BUZZWORD_PENALTY, d |-> PenaltyUnit(p)]
       ELSE Points(0, p)

\* density = count / max(1, word_count) * 100; excess * BUZZWORD_PENALTY
calculate_buzzword_penalty(p) ==
    LET wc == AtLeast1(get_word_count(p))
        count == buzzword_count(p)
        excess == 100 * count - MAX_BUZZWORD_DENSITY * wc   \* in 1/wc
    IN IF excess > 0
       THEN RatMin(Points(15, p),
                   [n |-> 2 * excess * BUZZWORD_PENALTY, d |-> PenaltyUnit(p)])
       ELSE Points(0, p)

calculate_vagueness_penalty(p) ==
    IF p.vague_count > 3
    THEN RatMin(Points(10, p),
                [n |-> (p.vague_count - 3) * VAGUENESS_PENALTY.n
                       * (PenaltyUnit(p) \div VAGUENESS_PENALTY.d),
                 d |-> PenaltyUnit(p)])
    ELSE Points(0, p)

calculate_overclaim_penalty(p) ==
    IF p.overclaim_count > 0
    THEN RatMin(Points(15, p), Points(p.overclaim_count * OVERCLAIM_PENALTY, p))
    ELSE Points(0, p)

calculate_ai_generated_penalty(p) ==
    IF p.ai_pattern_count >= 5 THEN Points(AI_GENERATED_PENALTY, p)
    ELSE Points(0, p)

(***************************************************************************)
(* round(x, 1) of the float nearest to n/d (n, d > 0 or n = 0), in tenths. *)
(* Away from a tie the float and the rational round alike; at a tie (the   *)
(* hundredths digit is 5 and nothing follows) the float is the rational    *)
(* plus its representation error, whose sign err decides the direction.    *)
(***************************************************************************)
Round1(n, d, err) ==
    LET q == (10 * n) \div d
        r == (10 * n) % d
    IN IF 2 * r < d THEN q
       ELSE IF 2 * r > d THEN q + 1
       ELSE IF err > 0 THEN q + 1 ELSE q

\* sum of score * (weight / 100), in hundredths of a point
weighted_sum(c) ==
    c.innovation * weight.innovation
    + c.technical_depth * weight.technical_depth
    + c.problem_relevance * weight.problem_relevance
    + c.feasibility * weight.feasibility
    + c.scalability * weight.scalability
    + c.ui_ux * weight.ui_ux
    + c.real_world_impact * weight.real_world_impact

\* the seven scorers' results, by criterion
criterion_results(p) ==
    [ innovation |-> score_innovation(p),
      technical_depth |-> score_technical_depth(p),
      problem_relevance |-> score_problem_relevance(p),
      feasibility |-> score_feasibility(p),
      scalability |-> score_scalability(p),
      ui_ux |-> score_ui_ux(p),
      real_world_impact |-> score_real_world_impact(p) ]

\* lines 82-97: the unrounded final score, [n, d] with d = FinalUnit(p)
FinalUnit(p) == 100 * 20 * AtLeast1(get_word_count(p))

total_penalty_of(p) ==
    LET sum == calculate_buzzword_penalty(p).n + calculate_vagueness_penalty(p).n
               + calculate_overclaim_penalty(p).n
               + calculate_ai_generated_penalty(p).n
    IN RatMin(Points(30, p), [n |-> sum, d |-> PenaltyUnit(p)])

ClampTo(x, lo, hi) == IF x < lo THEN lo ELSE IF x > hi THEN hi ELSE x

\* a faulty variant: the clamp of line 97 left out
final_of_unclamped(raw, p) ==
    LET m == score_multiplier(determine_complexity(p))
        wc == AtLeast1(get_word_count(p))
    IN [n |-> raw * m.n * wc
              - total_penalty_of(p).n * (FinalUnit(p) \div PenaltyUnit(p)),
        d |-> FinalUnit(p)]

\* line 97: max(0, min(100, raw_score * multiplier - total_penalty)),
\* raw in hundredths
final_of(raw, p) ==
    LET m == score_multiplier(determine_complexity(p))
        wc == AtLeast1(get_word_count(p))
        n == raw * m.n * wc
             - total_penalty_of(p).n * (FinalUnit(p) \div PenaltyUnit(p))
    IN [n |-> ClampTo(n, 0, 100 * FinalUnit(p)), d |-> FinalUnit(p)]

raw_unrounded(p) ==
    LET res == criterion_results(p)
    IN weighted_sum([c \in DOMAIN res |-> res[c].score])

final_unrounded(p) == final_of(raw_unrounded(p), p)

\* The ProjectScore built at lines 100-123; the feedback fields have their
\* defaults.  raw_score and final_score are in tenths.
MkProjectScore(p, raw1, final1) ==
    LET res == criterion_results(p)
    IN [ project_title |-> p.project_title,
         innovation_score |-> res.innovation.score,
         technical_depth_score |-> res.technical_depth.score,
         problem_relevance_score |-> res.problem_relevance.score,
         feasibility_score |-> res.feasibility.score,
         scalability_score |-> res.scalability.score,
         ui_ux_score |-> res.ui_ux.score,
         real_world_impact_score |-> res.real_world_impact.score,
         innovation_explanation |-> res.innovation.explanation,
         technical_depth_explanation |-> res.technical_depth.explanation,
         problem_relevance_explanation |-> res.problem_relevance.explanation,
         feasibility_explanation |-> res.feasibility.explanation,
         scalability_explanation |-> res.scalability.explanation,
         ui_ux_explanation |-> res.ui_ux.explanation,
         real_world_impact_explanation |-> res.real_world_impact.explanation,
         buzzword_penalty |-> calculate_buzzword_penalty(p),
         vagueness_penalty |-> calculate_vagueness_penalty(p),
         overclaim_penalty |-> calculate_overclaim_penalty(p),
         ai_generated_penalty |-> calculate_ai_generated_penalty(p),
         total_penalty |-> total_penalty_of(p),
         raw_score |-> raw1,
         final_score |-> final1,
         strengths |-> << >>, weaknesses |-> << >>, suggestions |-> << >>,
         verdict |-> "", verdict_emoji |-> "",
         verdict_explanation |-> [template |-> "", choice |-> 0] ]

\* a faulty variant: the rounded raw score enters the final score
evaluate_project_from_rounded_raw(p, err) ==
    LET raw1 == Round1(raw_unrounded(p), 100, err.raw)
        final == final_of(raw1 * 10, p)
    IN MkProjectScore(p, raw1, Round1(final.n, final.d, err.final))

\* a faulty variant: a point taken off for every entry the leaderboard
\* already holds under the same title
evaluate_project_with_history(p, err) ==
    LET final == final_unrounded(p)
        earlier == Cardinality({ i \in 1 .. Len(projects) :
                        projects[i].project_title = p.project_title })
    IN MkProjectScore(p, Round1(raw_unrounded(p), 100, err.raw),
                      ClampTo(Round1(final.n, final.d, err.final)
                              - 10 * earlier, 0, 1000))

(***************************************************************************)
(* ScoringEngine.evaluate_project                                          *)
(***************************************************************************)
evaluate_project(p, err) ==
    LET final == final_unrounded(p)
    IN MkProjectScore(p, Round1(raw_unrounded(p), 100, err.raw),
                      Round1(final.n, final.d, err.final))

\* ProjectScore's Field(ge=0, le=100) constraints; scores in points,
\* raw_score and final_score in tenths
InRange(x, unit) == 0 <= x /\ x <= 100 * unit

ProjectScoreValid(s) ==
    /\ InRange(s.innovation_score, 1)
    /\ InRange(s.technical_depth_score, 1)
    /\ InRange(s.problem_relevance_score, 1)
    /\ InRange(s.feasibility_score, 1)
    /\ InRange(s.scalability_score, 1)
    /\ InRange(s.ui_ux_score, 1)
    /\ InRange(s.real_world_impact_score, 1)
    /\ InRange(s.raw_score, 10)
    /\ InRange(s.final_score, 10)

\* len(reason)
StrLen(r) ==
    CASE r = "Strong innovation signals detected" -> 34
      [] r = "Some innovative elements present" -> 32
      [] r = "Detailed innovation explanation" -> 31
      [] r = "Clear differentiation from existing solutions" -> 45
      [] r = "Innovation description is too generic" -> 37
      [] r = "Excellent technical depth with specific implementation details" -> 62
      [] r = "Good technical vocabulary and understanding" -> 43
      [] r = "Basic technical concepts mentioned" -> 34
      [] r = "Lacks technical specificity" -> 27
      [] r = "Well-rounded tech stack covering multiple domains" -> 49
      [] r = "Reasonable tech stack variety" -> 29
      [] r = "Discusses system architecture" -> 29
      [] r = "Mentions data/API layer" -> 23
      [] r = "Thorough problem description" -> 28
      [] r = "Adequate problem description" -> 28
      [] r = "Clear articulation of pain points" -> 33
      [] r = "Some pain points identified" -> 27
      [] r = "Well-defined target audience" -> 28
      [] r = "Target audience mentioned" -> 25
      [] r = "Includes supporting data/statistics" -> 35
      [] r = "Strong evidence of practical implementation" -> 43
      [] r = "Some practical considerations mentioned" -> 39
      [] r = "Working demo available" -> 22
      [] r = "Documentation mentioned" -> 23
      [] r = "Realistic scope with phased approach" -> 36
      [] r = "Ambitious scope without demo evidence" -> 37
      [] r = "Excellent scalability architecture" -> 34
      [] r = "Some scalability considerations" -> 31
      [] r = "Detailed future roadmap" -> 23
      [] r = "Good extensibility considerations" -> 33
      [] r = "Business sustainability considered" -> 34
      [] r = "Strong UX focus with user-centric approach" -> 42
      [] r = "Some UX considerations mentioned" -> 32
      [] r = "Demo available for visual assessment" -> 36
      [] r = "Modern frontend technology stack" -> 32
      [] r = "Accessibility considered" -> 24
      [] r = "Clear articulation of real-world benefits" -> 41
      [] r = "Some impact considerations" -> 26
      [] r = "Quantified impact metrics" -> 25
      [] r = "Well-defined beneficiary group" -> 30
      [] r = "Average innovation level" -> 24
      [] r = "Limited technical depth" -> 23
      [] r = "Problem relevance unclear" -> 25
      [] r = "Feasibility not clearly demonstrated" -> 36
      [] r = "Scalability plan not evident" -> 28
      [] r = "UI/UX details not provided" -> 26
      [] r = "Real-world impact not clearly defined" -> 37

\* len("; ".join(reasons))
RECURSIVE ExplanationLen(_)
ExplanationLen(e) ==
    IF e = << >> THEN 0
    ELSE IF Len(e) = 1 THEN StrLen(e[1])
    ELSE StrLen(e[1]) + 2 + ExplanationLen(Tail(e))

(***************************************************************************)
(* FeedbackGenerator.  A feedback line is [head, criterion, detail]: the   *)
(* bold heading, the criterion it is about ("" if none) and the text after *)
(* the colon where it varies (a list of reasons or one sentence).          *)
(***************************************************************************)
Line(head, criterion, detail) ==
    [head |-> head, criterion |-> criterion, detail |-> detail]

Take(list, k) == SubSeq(list, 1, IF k < Len(list) THEN k ELSE Len(list))

RatGreater(a, k) == a.n > k * a.d

\* the list criteria_scores of both generators
criteria_scores(score) ==
    << [criterion |-> "innovation", score |-> score.innovation_score,
        explanation |-> score.innovation_explanation],
       [criterion |-> "technical_depth", score |-> score.technical_depth_score,
        explanation |-> score.technical_depth_explanation],
       [criterion |-> "problem_relevance",
        score |-> score.problem_relevance_score,
        explanation |-> score.problem_relevance_explanation],
       [criterion |-> "feasibility", score |-> score.feasibility_score,
        explanation |-> score.feasibility_explanation],
       [criterion |-> "scalability", score |-> score.scalability_score,
        explanation |-> score.scalability_explanation],
       [criterion |-> "ui_ux", score |-> score.ui_ux_score,
        explanation |-> score.ui_ux_explanation],
       [criterion |-> "real_world_impact",
        score |-> score.real_world_impact_score,
        explanation |-> score.real_world_impact_explanation] >>

\* list.sort(key=score), stable; dir = -1 for reverse=True, 1 otherwise
RECURSIVE InsertByScore(_, _, _)
InsertByScore(sorted, x, dir) ==
    IF sorted = << >> THEN <<x>>
    ELSE IF dir * x.score < dir * Head(sorted).score THEN <<x>> \o sorted
    ELSE <<Head(sorted)>> \o InsertByScore(Tail(sorted), x, dir)

RECURSIVE SortByScore(_, _, _)
SortByScore(done, rest, dir) ==
    IF rest = << >> THEN done
    ELSE SortByScore(InsertByScore(done, Head(rest), dir), Tail(rest), dir)

RECURSIVE Concat(_)
Concat(lists) ==
    IF lists = << >> THEN << >> ELSE Head(lists) \o Concat(Tail(lists))

\* a faulty variant: no strength forced when none was found
generate_strengths_unforced(p, score) ==
    LET sorted == SortByScore(<< >>, criteria_scores(score), -1)
        top(i) ==
            IF sorted[i].score >= 70
            THEN <<Line(IF sorted[i].score >= 85 THEN "Outstanding"
                        ELSE "Strong",
                        sorted[i].criterion, sorted[i].explanation)>>
            ELSE << >>
        strengths ==
            Concat([i \in 1 .. 4 |-> top(i)])
            \o (IF p.demo_link
                THEN <<Line("Working Demo Available", "", << >>)>> ELSE << >>)
            \o (IF score.total_penalty.n = 0
                THEN <<Line("Clean Submission", "", << >>)>> ELSE << >>)
            \o (IF get_word_count(p) >= 400
                THEN <<Line("Comprehensive Documentation", "", << >>)>>
                ELSE << >>)
    IN Take(strengths, 5)

generate_strengths(p, score) ==
    LET sorted == SortByScore(<< >>, criteria_scores(score), -1)
        top(i) ==
            IF sorted[i].score >= 70
            THEN <<Line(IF sorted[i].score >= 85 THEN "Outstanding"
                        ELSE "Strong",
                        sorted[i].criterion, sorted[i].explanation)>>
            ELSE << >>
        strengths ==
            Concat([i \in 1 .. 4 |-> top(i)])
            \o (IF p.demo_link
                THEN <<Line("Working Demo Available", "", << >>)>> ELSE << >>)
            \o (IF score.total_penalty.n = 0
                THEN <<Line("Clean Submission", "", << >>)>> ELSE << >>)
            \o (IF get_word_count(p) >= 400
                THEN <<Line("Comprehensive Documentation", "", << >>)>>
                ELSE << >>)
    IN IF strengths = << >>
       THEN <<Line("", sorted[1].criterion, sorted[1].explanation)>>
       ELSE Take(strengths, 5)

weakness_details ==
    [
      innovation |->
        <<"The solution doesn't clearly differentiate from existing approaches.",
          "Consider what unique angle or approach you bring to this problem.",
          "Innovation should be evident in either the problem framing or solution design.">>,
      technical_depth |->
        <<"The technical implementation lacks specificity.",
          "Describe your architecture decisions, algorithms, or engineering challenges.",
          "Judges want to see real engineering effort, not just tool integration.">>,
      problem_relevance |->
        <<"The problem statement needs more clarity on who this affects and why.",
          "Quantify the problem: how many people? What's the cost? What's the pain?",
          "A compelling problem makes the solution compelling.">>,
      feasibility |->
        <<"It's unclear whether this can actually be built and deployed.",
          "What's your MVP? What's achievable in a realistic timeframe?",
          "Show us that you've thought through the practical implementation.">>,
      scalability |->
        <<"The scaling strategy is not evident.",
          "What happens when you have 10x, 100x, 1000x the users?",
          "Consider technical and business scalability.">>,
      ui_ux |->
        <<"User experience considerations are minimal.",
          "How will users actually interact with this? What's the user journey?",
          "Even technical products need good UX.">>,
      real_world_impact |->
        <<"The real-world impact is unclear.",
          "Who benefits and how? What changes because this exists?",
          "Connect your technical solution to tangible outcomes.">> ]

\* a faulty variant: only an explanation longer than 40 characters is kept
get_weakness_detail_over40(criterion, expl, pick) ==
    IF expl # << >> /\ ExplanationLen(expl) > 40
    THEN expl
    ELSE <<weakness_details[criterion][pick]>>

\* _get_weakness_detail; pick is the draw of random.choice
get_weakness_detail(criterion, expl, pick) ==
    IF expl # << >> /\ ExplanationLen(expl) > 20
    THEN expl
    ELSE <<weakness_details[criterion][pick]>>

\* picks[i] is the draw made for the i-th weakest criterion
generate_weaknesses(p, score, picks) ==
    LET sorted == SortByScore(<< >>, criteria_scores(score), 1)
        bottom(i) ==
            IF sorted[i].score < 60
            THEN <<Line(IF sorted[i].score < 40 THEN "Critical Gap in"
                        ELSE "Needs Work",
                        sorted[i].criterion,
                        get_weakness_detail(sorted[i].criterion,
                                            sorted[i].explanation, picks[i]))>>
            ELSE << >>
        weaknesses ==
            Concat([i \in 1 .. 4 |-> bottom(i)])
            \o (IF RatGreater(score.buzzword_penalty, 5)
                THEN <<Line("Buzzword Overload", "", << >>)>> ELSE << >>)
            \o (IF RatGreater(score.vagueness_penalty, 3)
                THEN <<Line("Vague Descriptions", "", << >>)>> ELSE << >>)
            \o (IF RatGreater(score.overclaim_penalty, 5)
                THEN <<Line("Overclaiming", "", << >>)>> ELSE << >>)
            \o (IF RatGreater(score.ai_generated_penalty, 0)
                THEN <<Line("Generic Writing Style", "", << >>)>> ELSE << >>)
            \o (IF ~p.demo_link /\ score.final_score < 800
                THEN <<Line("No Demo", "", << >>)>> ELSE << >>)
    IN Take(weaknesses, 5)

generate_suggestions(p, score) ==
    LET If(cond, head) == IF cond THEN <<Line(head, "", << >>)>> ELSE << >>
        suggestions ==
            (IF score.final_score < 500
             THEN <<Line("Focus on One Thing", "", << >>),
                    Line("Build First, Describe Later", "", << >>)>>
             ELSE IF score.final_score < 700
             THEN <<Line("Add Evidence", "", << >>),
                    Line("Record a Demo", "", << >>)>>
             ELSE <<Line("Go Deep on Uniqueness", "", << >>),
                    Line("Show Growth Potential", "", << >>)>>)
            \o If(~p.demo_link, "Deploy a Demo")
            \o If(score.innovation_score < 60, "Clarify Innovation")
            \o If(score.technical_depth_score < 60, "Technical Documentation")
            \o If(score.problem_relevance_score < 60, "User Research")
            \o If(get_word_count(p) < 200, "Expand Details")
            \o If(score.final_score >= 700, "Polish for Finals")
    IN Take(suggestions, 5)

\* the template list _determine_verdict draws its explanation from
verdict_template(final) ==
    IF final >= WinnerMin * 10 THEN "winner_verdict"
    ELSE IF final >= StrongMin * 10 THEN "strong_verdict"
    ELSE IF final >= AverageMin * 10 THEN "average_verdict"
    ELSE "not_ready_verdict"

\* a faulty variant: the final score rewritten in whole points on the way
generate_feedback_rescoring(p, score, rnd) ==
    [score EXCEPT
        !.strengths = generate_strengths(p, score),
        !.weaknesses = generate_weaknesses(p, score, rnd.detail),
        !.suggestions = generate_suggestions(p, score),
        !.verdict = determine_verdict(score.final_score)[1],
        !.verdict_emoji = determine_verdict(score.final_score)[2],
        !.verdict_explanation =
            [template |-> verdict_template(score.final_score),
             choice |-> rnd.verdict],
        !.final_score = (score.final_score \div 10) * 10]

\* rnd = [verdict, detail]: the draws of random.choice
generate_feedback(p, score, rnd) ==
    [score EXCEPT
        !.strengths = generate_strengths(p, score),
        !.weaknesses = generate_weaknesses(p, score, rnd.detail),
        !.suggestions = generate_suggestions(p, score),
        !.verdict = determine_verdict(score.final_score)[1],
        !.verdict_emoji = determine_verdict(score.final_score)[2],
        !.verdict_explanation =
            [template |-> verdict_template(score.final_score),
             choice |-> rnd.verdict]]

(***************************************************************************)
(* SpecLB: one Leaderboard instance used by one caller at a time.          *)
(***************************************************************************)
NoCall == Call("none", "", "")
NoSessions == << >>
NoSubmission ==
    [project |-> "none", score |-> "none",
     float_err |-> [raw |-> 0, final |-> 0], pc |-> "none",
     form_data |-> "none", current_score |-> << >>]

InitLB ==
    /\ projects = << >>
    /\ store \in BrokenStores \cup EarlierStores
    /\ storage_path \in BOOLEAN
    /\ ~storage_path => store.kind = "missing"
    /\ phase = "new"
    /\ ret = NoCall
    /\ clock = 1
    /\ sessions = NoSessions
    /\ cur_project = NoSubmission.project
    /\ cur_score = NoSubmission.score
    /\ float_err = NoSubmission.float_err
    /\ pc = NoSubmission.pc
    /\ form_data = NoSubmission.form_data
    /\ current_score = NoSubmission.current_score

NextLB ==
    \/ LeaderboardInit
    \/ \E s \in Results : add_project(s)
    \/ \E limit \in Limits : get_rankings(limit)
    \/ \E t \in Titles : get_project_rank(t)
    \/ explain_winner
    \/ get_statistics
    \/ \E t \in Titles : get_comparison(t, "Beta")
    \/ clear
    \/ \E t \in Titles : remove_project(t)

SpecLB == InitLB /\ [][NextLB]_vars

(***************************************************************************)
(* The submissions of the model: one choice per part of the text.  Each    *)
(* part lists the readings the scorers take from it; the word counts of    *)
(* the fields hold the phrases counted in them.                            *)
(***************************************************************************)
InnovationTexts ==
    { [innovation_count |-> 0, innovation_words |-> 12, diff_count |-> 0,
       generic_count |-> 2],
      [innovation_count |-> 0, innovation_words |-> 12, diff_count |-> 0,
       generic_count |-> 0],
      [innovation_count |-> 3, innovation_words |-> 55, diff_count |-> 2,
       generic_count |-> 0] }

TechnicalTexts ==
    { [tech_signal_count |-> 0, tech_categories_used |-> 0,
       sol_architecture |-> FALSE, sol_data_api |-> FALSE],
      [tech_signal_count |-> 5, tech_categories_used |-> 2,
       sol_architecture |-> TRUE, sol_data_api |-> FALSE],
      [tech_signal_count |-> 10, tech_categories_used |-> 4,
       sol_architecture |-> TRUE, sol_data_api |-> TRUE] }

ProblemTexts ==
    { [problem_words |-> 20, pain_count |-> 0, specific_count |-> 0,
       has_statistics |-> FALSE],
      [problem_words |-> 45, pain_count |-> 1, specific_count |-> 1,
       has_statistics |-> FALSE],
      [problem_words |-> 80, pain_count |-> 3, specific_count |-> 2,
       has_statistics |-> TRUE] }

FeasibilityTexts ==
    { [feasibility_count |-> 0, mentions_docs |-> FALSE,
       scope_indicator |-> FALSE, ambitious |-> TRUE],
      [feasibility_count |-> 0, mentions_docs |-> FALSE,
       scope_indicator |-> FALSE, ambitious |-> FALSE],
      [feasibility_count |-> 5, mentions_docs |-> TRUE,
       scope_indicator |-> TRUE, ambitious |-> FALSE] }

ScalabilityTexts ==
    { [scale_count |-> 0, future_words |-> 10, extend_count |-> 0,
       sustain |-> FALSE],
      [scale_count |-> 4, future_words |-> 60, extend_count |-> 2,
       sustain |-> TRUE] }

UiTexts ==
    { [ux_count |-> 0, frontend_tech |-> FALSE, accessibility |-> FALSE],
      [ux_count |-> 2, frontend_tech |-> FALSE, accessibility |-> FALSE],
      [ux_count |-> 5, frontend_tech |-> TRUE, accessibility |-> TRUE] }

ImpactTexts ==
    { [impact_count |-> 0, quantified_impact |-> FALSE, target_words |-> 5],
      [impact_count |-> 6, quantified_impact |-> TRUE, target_words |-> 30] }

\* beginner, intermediate, advanced
Teams ==
    { [team_size |-> 2, tech_count |-> 3, tech_words |-> 3],
      [team_size |-> 3, tech_count |-> 4, tech_words |-> 4],
      [team_size |-> 4, tech_count |-> 6, tech_words |-> 6] }

NoBuzzwords == [b \in BuzzLex |-> 0]

\* the vague, overclaiming and templated phrases stand in the solution
\* description, the buzzwords in the problem statement
PenaltyTexts ==
    { [buzz_occ |-> NoBuzzwords, vague_count |-> 0, overclaim_count |-> 0,
       ai_pattern_count |-> 0, solution_words |-> 15],
      [buzz_occ |-> NoBuzzwords, vague_count |-> 4, overclaim_count |-> 1,
       ai_pattern_count |-> 0, solution_words |-> 20],
      [buzz_occ |-> [b \in BuzzLex |-> 1], vague_count |-> 10,
       overclaim_count |-> 5, ai_pattern_count |-> 5, solution_words |-> 40] }

\* the parts every submission of the model has alike
CommonText == [project_title |-> "Alpha", title_words |-> 2]

\* the demo-less submission of plain text whose problem statement has
\* `words` words and no buzzword yet
PlainProject(words) ==
    CommonText
    @@ [innovation_count |-> 0, innovation_words |-> 12, diff_count |-> 0,
        generic_count |-> 0]
    @@ [tech_signal_count |-> 0, tech_categories_used |-> 0,
        sol_architecture |-> FALSE, sol_data_api |-> FALSE]
    @@ [problem_words |-> words, pain_count |-> 0, specific_count |-> 0,
        has_statistics |-> FALSE]
    @@ [feasibility_count |-> 0, mentions_docs |-> FALSE,
        scope_indicator |-> FALSE, ambitious |-> FALSE]
    @@ [scale_count |-> 0, future_words |-> 10, extend_count |-> 0,
        sustain |-> FALSE]
    @@ [ux_count |-> 0, frontend_tech |-> FALSE, accessibility |-> FALSE]
    @@ [impact_count |-> 0, quantified_impact |-> FALSE, target_words |-> 5]
    @@ [team_size |-> 3, tech_count |-> 4, tech_words |-> 4]
    @@ [buzz_occ |-> NoBuzzwords, vague_count |-> 0, overclaim_count |-> 0,
        ai_pattern_count |-> 0, solution_words |-> 15]
    @@ [demo_link |-> FALSE]

\* a terse submission: a problem statement that is the six buzzwords and
\* nothing else, the other fields a few long words each
TerseProject ==
    [PlainProject(7) EXCEPT !.title_words = 1, !.solution_words = 12,
                            !.tech_count = 2, !.tech_words = 1,
                            !.innovation_words = 6, !.target_words = 3,
                            !.future_words = 6,
                            !.buzz_occ = [b \in BuzzLex |-> 1]]

\* Readings one text can give: a figure such as "40% faster" is matched by
\* the statistics pattern too, and the words "architecture", "api" and
\* "database" are technical signals.
Readable(p) ==
    /\ p.quantified_impact => p.has_statistics
    /\ (p.sol_architecture \/ p.sol_data_api) => p.tech_signal_count >= 1

Projects ==
    { p \in
        { CommonText @@ i @@ t @@ r @@ f @@ s @@ u @@ m @@ team @@ pen
          @@ [demo_link |-> demo] :
            i \in InnovationTexts, t \in TechnicalTexts, r \in ProblemTexts,
            f \in FeasibilityTexts, s \in ScalabilityTexts, u \in UiTexts,
            m \in ImpactTexts, team \in Teams, pen \in PenaltyTexts,
            demo \in BOOLEAN } : Readable(p) }
    \cup {TerseProject}

\* round() meets a tie in the raw score, in the final score of p
RawTie(p) == (10 * raw_unrounded(p)) % 100 = 50

FinalTie(p) ==
    2 * ((10 * final_unrounded(p).n) % FinalUnit(p)) = FinalUnit(p)

\* the representation errors that show in the results of p
FloatErrs(p) ==
    { [raw |-> a, final |-> b] :
        a \in IF RawTie(p) THEN {-1, 1} ELSE {1},
        b \in IF FinalTie(p) THEN {-1, 1} ELSE {1} }

(***************************************************************************)
(* The submit handler of app.py, lines 266-287, one step per call.         *)
(***************************************************************************)
\* score = scoring_engine.evaluate_project(project); a ValidationError of
\* ProjectScore goes to the handler's except clause
submit_evaluate ==
    /\ pc = "submitted"
    /\ LET score == evaluate_project(cur_project, float_err)
       IN IF ProjectScoreValid(score)
          THEN cur_score' = score /\ pc' = "evaluated"
          ELSE cur_score' = cur_score /\ pc' = "error"
    /\ UNCHANGED <<lbvars, sessions, cur_project, float_err, form_data,
                   current_score>>

\* The draws random.choice makes: one per listed weak criterion whose
\* explanation is short, one for the verdict explanation.
DetailDraws(score) ==
    IF \E i \in 1 .. 7 :
          /\ criteria_scores(score)[i].score < 60
          /\ ExplanationLen(criteria_scores(score)[i].explanation) <= 20
    THEN [1 .. 4 -> 1 .. 3]
    ELSE {[i \in 1 .. 4 |-> 1]}

\* score = feedback_gen.generate_feedback(project, score)
submit_feedback ==
    /\ pc = "evaluated"
    /\ \E v \in 1 .. 3 : \E d \in DetailDraws(cur_score) :
         cur_score' = generate_feedback(cur_project, cur_score,
                                        [verdict |-> v, detail |-> d])
    /\ pc' = "feedback"
    /\ UNCHANGED <<lbvars, sessions, cur_project, float_err, form_data,
                   current_score>>

\* a faulty variant: the score is added before its feedback is generated
submit_add_unjudged ==
    /\ pc = "evaluated"
    /\ ret = NoCall
    /\ add_project(cur_score)

\* rank = st.session_state.leaderboard.add_project(score)
submit_add ==
    /\ pc = "feedback"
    /\ ret = NoCall
    /\ add_project(cur_score)

InitEval ==
    /\ projects = EarlierEntries
    /\ store = ListStore(EarlierEntries)
    /\ storage_path = TRUE
    /\ phase = "ready"
    /\ ret = NoCall
    /\ clock = 1
    /\ sessions = NoSessions
    /\ cur_project \in Projects
    /\ cur_score = NoSubmission.score
    /\ float_err \in FloatErrs(cur_project)
    /\ pc = "submitted"
    /\ form_data = NoSubmission.form_data
    /\ current_score = NoSubmission.current_score

NextEval == submit_evaluate \/ submit_feedback \/ submit_add

SpecEval == InitEval /\ [][NextEval]_vars

(***************************************************************************)
(* SpecBuzz: a submission is evaluated again each time one more occurrence *)
(* of a buzzword is written into its problem statement; nothing else in    *)
(* the text changes.                                                       *)
(***************************************************************************)
MaxOcc == 10        \* occurrences of one buzzword at most

PlainProblemWords == {8, 72}

\* the text with one more occurrence of b in the problem statement
WithBuzzword(p, b) ==
    [p EXCEPT !.buzz_occ[b] = @ + 1, !.problem_words = @ + PhraseWords(b)]

add_buzzword(b) ==
    /\ pc = "evaluated"
    /\ cur_project.buzz_occ[b] < MaxOcc
    /\ cur_project' = WithBuzzword(cur_project, b)
    /\ float_err' \in FloatErrs(cur_project')
    /\ cur_score' = evaluate_project(cur_project', float_err')
    /\ UNCHANGED <<lbvars, sessions, pc, form_data, current_score>>

InitBuzz ==
    /\ projects = EarlierEntries
    /\ store = ListStore(EarlierEntries)
    /\ storage_path = TRUE
    /\ phase = "ready"
    /\ ret = NoCall
    /\ clock = 1
    /\ sessions = NoSessions
    /\ \E w \in PlainProblemWords : cur_project = PlainProject(w)
    /\ float_err \in FloatErrs(cur_project)
    /\ cur_score = evaluate_project(cur_project, float_err)
    /\ pc = "evaluated"
    /\ form_data = NoSubmission.form_data
    /\ current_score = NoSubmission.current_score

\* the buzzwords of scenario B
ScenarioBuzzwords == {"revolutionary", "game-changing", "disruptive"}

NextBuzz == \E b \in ScenarioBuzzwords : add_buzzword(b)

SpecBuzz == InitBuzz /\ [][NextBuzz]_vars

(***************************************************************************)
(* The same submission sent again with a demo link filled in: the form of  *)
(* app.py keeps the other fields, and no scorer reads the link's text      *)
(* (get_all_text leaves the links out).                                    *)
(***************************************************************************)
SignalCounts == {0, 1, 2, 4, 5}

\* demo-less submissions, one for every combination of the conditions the
\* feasibility and the UI/UX scorer test
DemoProjects ==
    { [PlainProject(72) EXCEPT !.feasibility_count = fc, !.mentions_docs = docs,
                               !.scope_indicator = scope, !.ambitious = amb,
                               !.ux_count = ux, !.frontend_tech = fe,
                               !.accessibility = acc] :
        fc \in SignalCounts, docs \in BOOLEAN, scope \in BOOLEAN,
        amb \in BOOLEAN, ux \in SignalCounts, fe \in BOOLEAN,
        acc \in BOOLEAN }

add_demo_link ==
    /\ pc = "evaluated"
    /\ ~cur_project.demo_link
    /\ cur_project' = [cur_project EXCEPT !.demo_link = TRUE]
    /\ float_err' \in FloatErrs(cur_project')
    /\ cur_score' = evaluate_project(cur_project', float_err')
    /\ UNCHANGED <<lbvars, sessions, pc, form_data, current_score>>

InitDemo ==
    /\ projects = EarlierEntries
    /\ store = ListStore(EarlierEntries)
    /\ storage_path = TRUE
    /\ phase = "ready"
    /\ ret = NoCall
    /\ clock = 1
    /\ sessions = NoSessions
    /\ cur_project \in DemoProjects
    /\ float_err \in FloatErrs(cur_project)
    /\ cur_score = evaluate_project(cur_project, float_err)
    /\ pc = "evaluated"
    /\ form_data = NoSubmission.form_data
    /\ current_score = NoSubmission.current_score

NextDemo == add_demo_link

SpecDemo == InitDemo /\ [][NextDemo]_vars

(***************************************************************************)
(* SpecAgain: the form is submitted over and over in one session, each     *)
(* time with one of two project records, so that the same record is        *)
(* evaluated again after other evaluations, feedback generations and       *)
(* additions to the leaderboard.  round() is a function of its operand:    *)
(* the direction float_err gives the ties of AlphaRecord is the same in    *)
(* every evaluation, and BetaRecord has no tie.                            *)
(***************************************************************************)
AlphaRecord == PlainProject(8)

BetaRecord ==
    [PlainProject(8) EXCEPT !.project_title = "Beta", !.mentions_docs = TRUE,
                            !.demo_link = TRUE]

AgainRecords == {AlphaRecord, BetaRecord}

\* the submit button pressed again, once the handler has returned
submit_again(p) ==
    /\ pc = "feedback"
    /\ ret.op = "add_project"
    /\ cur_project' = p
    /\ pc' = "submitted"
    /\ ret' = NoCall
    /\ UNCHANGED <<projects, store, storage_path, phase, clock, sessions,
                   cur_score, float_err, form_data, current_score>>

InitAgain ==
    /\ projects = << >>
    /\ store = ListStore(<< >>)
    /\ storage_path = TRUE
    /\ phase = "ready"
    /\ ret = NoCall
    /\ clock = 1
    /\ sessions = NoSessions
    /\ cur_project \in AgainRecords
    /\ float_err \in FloatErrs(AlphaRecord)
    /\ cur_score = evaluate_project(cur_project, float_err)
    /\ pc = "evaluated"
    /\ form_data = NoSubmission.form_data
    /\ current_score = NoSubmission.current_score

NextAgain ==
    \/ submit_evaluate
    \/ submit_feedback
    \/ submit_add
    \/ \E p \in AgainRecords : submit_again(p)

SpecAgain == InitAgain /\ [][NextAgain]_vars

(***************************************************************************)
(* SpecVerdict: generate_feedback called on a score record whose final     *)
(* score is any number of tenths from 0.0 to 100.0, the other fields those *)
(* of an evaluated record.                                                 *)
(***************************************************************************)
FinalScores == 0 .. 1000

InitVerdict ==
    /\ projects = EarlierEntries
    /\ store = ListStore(EarlierEntries)
    /\ storage_path = TRUE
    /\ phase = "ready"
    /\ ret = NoCall
    /\ clock = 1
    /\ sessions = NoSessions
    /\ cur_project \in AgainRecords
    /\ float_err = [raw |-> 1, final |-> 1]
    /\ \E f \in FinalScores :
         cur_score = [evaluate_project(cur_project, float_err)
                         EXCEPT !.final_score = f]
    /\ pc = "evaluated"
    /\ form_data = NoSubmission.form_data
    /\ current_score = NoSubmission.current_score

NextVerdict == submit_feedback

SpecVerdict == InitVerdict /\ [][NextVerdict]_vars

(***************************************************************************)
(* SpecTeam: one plain submission for every team size the form accepts     *)
(* (Field(ge=1, le=10)) and every number of comma-separated items of the   *)
(* tech stack up to MaxTechCount; split(',') yields one item at least.     *)
(***************************************************************************)
MaxTechCount == 8

TeamSizes == 1 .. 10

TeamProjects ==
    { [PlainProject(8) EXCEPT !.team_size = t, !.tech_count = c,
                              !.tech_words = c] :
        t \in TeamSizes, c \in 1 .. MaxTechCount }

InitTeam ==
    /\ projects = EarlierEntries
    /\ store = ListStore(EarlierEntries)
    /\ storage_path = TRUE
    /\ phase = "ready"
    /\ ret = NoCall
    /\ clock = 1
    /\ sessions = NoSessions
    /\ cur_project \in TeamProjects
    /\ cur_score = NoSubmission.score
    /\ float_err \in FloatErrs(cur_project)
    /\ pc = "submitted"
    /\ form_data = NoSubmission.form_data
    /\ current_score = NoSubmission.current_score

NextTeam == submit_evaluate \/ submit_feedback

SpecTeam == InitTeam /\ [][NextTeam]_vars

(***************************************************************************)
(* SpecWinner: the scores of four evaluated submissions are added to an    *)
(* empty leaderboard, in any order and number, and explain_winner is       *)
(* called in between.  None of the four has a rounding tie.                *)
(***************************************************************************)
\* a team of four with a demo, a readme and a phased scope: 53.5 * 0.95
LeadRecord ==
    [PlainProject(8) EXCEPT !.project_title = "Lead", !.team_size = 4,
                            !.demo_link = TRUE, !.mentions_docs = TRUE,
                            !.scope_indicator = TRUE]

\* the same with five overclaiming and five templated phrases: 20 off
TrailRecord ==
    [LeadRecord EXCEPT !.project_title = "Trail", !.overclaim_count = 5,
                       !.ai_pattern_count = 5, !.solution_words = 17]

DocsRecord ==
    [PlainProject(8) EXCEPT !.project_title = "Docs", !.mentions_docs = TRUE]

WinnerRecords == {LeadRecord, TrailRecord, BetaRecord, DocsRecord}

\* what the submit handler hands to add_project for the record r
Submitted(r) ==
    generate_feedback(r, evaluate_project(r, [raw |-> 1, final |-> 1]),
                      [verdict |-> 1, detail |-> [i \in 1 .. 4 |-> 1]])

InitWinner ==
    /\ projects = << >>
    /\ store = ListStore(<< >>)
    /\ storage_path = TRUE
    /\ phase = "ready"
    /\ ret = NoCall
    /\ clock = 1
    /\ sessions = NoSessions
    /\ cur_project = NoSubmission.project
    /\ cur_score = NoSubmission.score
    /\ float_err = NoSubmission.float_err
    /\ pc = NoSubmission.pc
    /\ form_data = NoSubmission.form_data
    /\ current_score = NoSubmission.current_score

NextWinner ==
    \/ \E r \in WinnerRecords : add_project(Submitted(r))
    \/ explain_winner

SpecWinner == InitWinner /\ [][NextWinner]_vars

(***************************************************************************)
(* SpecSubmit: the whole submit handler of app.py, lines 240-288, from the *)
(* form to the stored current_score, pressed again and again.  A form is   *)
(* the text of one project (its readings), the character counts of two of  *)
(* its cleaned text fields, and the two links as typed.                    *)
(***************************************************************************)
\* ProjectValidator.LIMITS
LIMITS ==
    [project_title |-> [min_len |-> 3, max_len |-> 100],
     problem_statement |-> [min_len |-> 50, max_len |-> 2000],
     solution_description |-> [min_len |-> 100, max_len |-> 3000],
     tech_stack |-> [min_len |-> 10, max_len |-> 500],
     innovation_description |-> [min_len |-> 50, max_len |-> 1500],
     target_users |-> [min_len |-> 20, max_len |-> 500],
     future_scope |-> [min_len |-> 50, max_len |-> 1000]]

LimitOrder ==
    <<"project_title", "problem_statement", "solution_description",
      "tech_stack", "innovation_description", "target_users", "future_scope">>

\* ProjectValidator.clean_url: only a link starting with github.com gets
\* its scheme added
clean_url(url) ==
    IF url = "github.com/a/b" THEN "https://github.com/a/b" ELSE url

\* ProjectValidator.validate_all on the cleaned data: the error messages,
\* in the order they are appended
validate_all(data) ==
    LET text_error(field) ==
            IF data.chars[field] = 0 THEN <<[field |-> field, is |-> "required"]>>
            ELSE IF data.chars[field] < LIMITS[field].min_len
                 THEN <<[field |-> field, is |-> "too short"]>>
            ELSE IF data.chars[field] > LIMITS[field].max_len
                 THEN <<[field |-> field, is |-> "too long"]>>
            ELSE << >>
        text_errors[i \in 0 .. 7] ==
            IF i = 0 THEN << >>
            ELSE text_errors[i - 1] \o text_error(LimitOrder[i])
        team_error ==
            IF data.team_size < 1 \/ data.team_size > 10
            THEN <<[field |-> "team_size", is |-> "out of range"]>>
            ELSE << >>
        github_error ==
            IF data.github_link = ""
            THEN <<[field |-> "github_link", is |-> "required"]>>
            ELSE IF data.github_link # "https://github.com/a/b"
                 THEN <<[field |-> "github_link", is |-> "invalid"]>>
            ELSE << >>
        demo_error ==
            IF data.demo_link # "" /\ data.demo_link # "https://demo.example.com"
            THEN <<[field |-> "demo_link", is |-> "invalid"]>>
            ELSE << >>
    IN text_errors[7] \o team_error \o github_error \o demo_error

\* validate_project_data: the links cleaned, then validate_all
validate_project_data(data) ==
    LET cleaned == [data EXCEPT !.github_link = clean_url(@),
                                !.demo_link = clean_url(@)]
    IN [is_valid |-> validate_all(cleaned) = << >>,
        errors |-> validate_all(cleaned), cleaned_data |-> cleaned]

\* the character counts of the cleaned text fields of a form that passes
FullChars ==
    [project_title |-> 5, problem_statement |-> 60,
     solution_description |-> 120, tech_stack |-> 20,
     innovation_description |-> 60, target_users |-> 30, future_scope |-> 60]

\* the text of the forms: a team of two with a documented, phased plan and
\* a named architecture; "Average" without a demo link, "Strong Contender"
\* with one, and no rounding tie either way
StackRecord ==
    [PlainProject(20) EXCEPT
        !.project_title = "Stack", !.team_size = 2, !.tech_count = 3,
        !.tech_words = 3, !.tech_signal_count = 5, !.tech_categories_used = 2,
        !.sol_architecture = TRUE, !.feasibility_count = 5,
        !.mentions_docs = TRUE, !.scope_indicator = TRUE]

Forms ==
    { [text |-> StackRecord,
       chars |-> [FullChars EXCEPT !.project_title = t, !.future_scope = f],
       team_size |-> 2, github_link |-> g, demo_link |-> d] :
        t \in {0, 2, 5}, f \in {60, 1001},
        g \in {"", "github.com/a/b", "https://github.com/a/b",
               "https://gitlab.com/a/b"},
        d \in {"", "demo.example.com", "https://demo.example.com"} }

\* a faulty variant: the errors are shown and the try block runs all the same
submit_validate_regardless ==
    /\ pc = "form"
    /\ pc' = "submitted"
    /\ LET cleaned_data == validate_project_data(form_data).cleaned_data
       IN cur_project' = [cleaned_data.text EXCEPT
                            !.team_size = cleaned_data.team_size,
                            !.demo_link = (cleaned_data.demo_link # "")]
    /\ float_err' \in FloatErrs(cur_project')
    /\ UNCHANGED <<lbvars, sessions, cur_score, form_data, current_score>>

\* is_valid, errors, cleaned_data = validate_project_data(form_data); the
\* errors are shown, or else project = HackathonProject(**cleaned_data)
submit_validate ==
    /\ pc = "form"
    /\ LET checked == validate_project_data(form_data)
       IN IF ~checked.is_valid
          THEN /\ pc' = "rejected"
               /\ UNCHANGED <<cur_project, float_err>>
          ELSE /\ pc' = "submitted"
               /\ cur_project' =
                    [checked.cleaned_data.text EXCEPT
                        !.team_size = checked.cleaned_data.team_size,
                        !.demo_link = (checked.cleaned_data.demo_link # "")]
               /\ float_err' \in FloatErrs(cur_project')
    /\ UNCHANGED <<lbvars, sessions, cur_score, form_data, current_score>>

\* st.session_state.current_score = score, once add_project has returned
submit_show ==
    /\ pc = "feedback"
    /\ ret.op = "add_project"
    /\ current_score' = <<cur_score>>
    /\ pc' = "shown"
    /\ UNCHANGED <<lbvars, sessions, cur_project, cur_score, float_err,
                   form_data>>

\* the rerun: the form filled in and the submit button pressed again
submit_form(data) ==
    /\ pc \in {"rejected", "error", "shown"}
    /\ form_data' = data
    /\ pc' = "form"
    /\ ret' = NoCall
    /\ UNCHANGED <<projects, store, storage_path, phase, clock, sessions,
                   cur_project, cur_score, float_err, current_score>>

\* the sidebar drawn by the run that follows the handler:
\* stats = st.session_state.leaderboard.get_statistics()
render_sidebar ==
    /\ pc \in {"rejected", "shown"}
    /\ get_statistics

InitSubmit ==
    /\ projects = << >>
    /\ store = ListStore(<< >>)
    /\ storage_path = TRUE
    /\ phase = "ready"
    /\ ret = NoCall
    /\ clock = 1
    /\ sessions = NoSessions
    /\ cur_project = [project_title |-> "none"]   \* project: not bound yet
    /\ cur_score = [project_title |-> "none"]     \* score: not bound yet
    /\ float_err = NoSubmission.float_err
    /\ pc = "form"
    /\ form_data \in Forms
    /\ current_score = NoSubmission.current_score

NextSubmit ==
    \/ submit_validate
    \/ submit_evaluate
    \/ submit_feedback
    \/ submit_add
    \/ submit_show
    \/ \E data \in Forms : submit_form(data)
    \/ render_sidebar

SpecSubmit == InitSubmit /\ [][NextSubmit]_vars

(***************************************************************************)
(* NLPAnalyzer (utils/nlp_analyzer.py).  A text is a sequence of           *)
(* sentences, the pieces between runs of ".!?", each a sequence of         *)
(* lower-case words; "--" is a run of punctuation standing alone.          *)
(* Rounded results are integers: tenths for round(x, 1), thousandths for   *)
(* round(x, 3).                                                            *)
(***************************************************************************)
MaxTextWords == 3

Lexicon == {"the", "--", "api", "parking"}

\* the part of _get_stop_words and of _get_technical_terms the lexicon meets
stop_words == {"the"}
technical_terms == {"api"}

\* len(w) once the punctuation is blanked
WordLen(w) ==
    CASE w = "the" -> 3 [] w = "--" -> 0 [] w = "api" -> 3 [] w = "parking" -> 7

RECURSIVE Flatten(_)
Flatten(text) ==
    IF text = << >> THEN << >> ELSE Head(text) \o Flatten(Tail(text))

\* _tokenize: punctuation blanked, stop words and words of one or two
\* letters dropped
tokenize(text) ==
    SelectSeq(Flatten(text),
              LAMBDA w : w \notin stop_words /\ WordLen(w) > 2)

\* _split_sentences: the non-blank pieces
split_sentences(text) == SelectSeq(text, LAMBDA piece : piece # << >>)

\* n / d: a ZeroDivisionError when d = 0
Ratio(n, d) == IF d = 0 THEN [raised |-> "ZeroDivisionError"] ELSE [n |-> n, d |-> d]

\* _calculate_substance_score, in points
calculate_substance_score(word_count, vocab_richness, tech_ratio, avg_sent_len) ==
    LET vocab == IF 10 * vocab_richness.n > 6 * vocab_richness.d THEN 15
                 ELSE IF 10 * vocab_richness.n > 4 * vocab_richness.d THEN 8
                 ELSE 0
        tech == IF 100 * tech_ratio.n > 5 * tech_ratio.d THEN 20
                ELSE IF 100 * tech_ratio.n > 2 * tech_ratio.d THEN 10
                ELSE 0
        sent == IF /\ 12 * avg_sent_len.d <= avg_sent_len.n
                   /\ avg_sent_len.n <= 25 * avg_sent_len.d THEN 10
                ELSE IF avg_sent_len.n < 8 * avg_sent_len.d THEN -10
                ELSE IF avg_sent_len.n > 35 * avg_sent_len.d THEN -5
                ELSE 0
        count == IF word_count > 300 THEN 5
                 ELSE IF word_count < 100 THEN -10
                 ELSE 0
    IN Clamp(50 + vocab + tech + sent + count)

\* _calculate_readability, in tenths: 50 when there is no word or no
\* sentence, else 100 - 5 * avg_word_length - 1.5 * avg_sent_length clamped
calculate_readability(tokens, pieces) ==
    IF tokens = << >> \/ pieces = << >> THEN 500
    ELSE LET letters[i \in 0 .. Len(tokens)] ==
                 IF i = 0 THEN 0 ELSE letters[i - 1] + WordLen(tokens[i])
             wc == Len(tokens)
             sc == Len(pieces)
             \* over 2 * wc * sc
             n == 200 * wc * sc - 10 * letters[wc] * sc - 3 * wc * wc
         IN IF n < 0 THEN 0
            ELSE IF n > 200 * wc * sc THEN 1000
            ELSE RoundDiv(10 * n, 2 * wc * sc)

\* _extract_key_concepts: the words met twice or technical, the most
\* frequent first, those as frequent in the order they were first met
extract_key_concepts(tokens) ==
    LET freq(w) == Cardinality({i \in 1 .. Len(tokens) : tokens[i] = w})
        first(w) == CHOOSE i \in 1 .. Len(tokens) :
                       /\ tokens[i] = w
                       /\ \A j \in 1 .. i - 1 : tokens[j] # w
        meaningful == {tokens[i] : i \in 1 .. Len(tokens)}
                      \cap {w \in Lexicon : freq(w) >= 2 \/ w \in technical_terms}
        place(w) == 1 + Cardinality({v \in meaningful :
                        \/ freq(v) > freq(w)
                        \/ freq(v) = freq(w) /\ first(v) < first(w)})
    IN [i \in 1 .. Cardinality(meaningful) |->
            CHOOSE w \in meaningful : place(w) = i]

\* analyze_text with max(least, .) as the denominators of its three ratios
text_analysis(text, least) ==
    LET tokens == tokenize(text)
        pieces == split_sentences(text)
        word_count == Len(tokens)
        sentence_count == Len(pieces)
        floor(x) == IF x < least THEN least ELSE x
        avg_sentence_length == Ratio(word_count, floor(sentence_count))
        unique_words == {tokens[i] : i \in 1 .. word_count}
        vocabulary_richness == Ratio(Cardinality(unique_words), floor(word_count))
        technical_words == SelectSeq(tokens, LAMBDA w : w \in technical_terms)
        technical_ratio == Ratio(Len(technical_words), floor(word_count))
    IN IF floor(sentence_count) = 0 \/ floor(word_count) = 0
       THEN Ratio(word_count, 0)
       ELSE [word_count |-> word_count,
             sentence_count |-> sentence_count,
             avg_sentence_length |->
                RoundDiv(10 * avg_sentence_length.n, avg_sentence_length.d),
             vocabulary_richness |->
                RoundDiv(1000 * vocabulary_richness.n, vocabulary_richness.d),
             technical_ratio |->
                RoundDiv(1000 * technical_ratio.n, technical_ratio.d),
             substance_score |->
                10 * calculate_substance_score(word_count, vocabulary_richness,
                                               technical_ratio,
                                               avg_sentence_length),
             readability_score |-> calculate_readability(tokens, pieces),
             key_concepts |-> extract_key_concepts(tokens)]

\* a faulty variant: the denominators are the bare counts
analyze_text_unfloored(text) == text_analysis(text, 0)

\* NLPAnalyzer.analyze_text
analyze_text(text) == text_analysis(text, 1)

\* NLPAnalyzer.check_coherence; the percentages in tenths
check_coherence(problem, solution, innovation) ==
    LET problem_words == {tokenize(problem)[i] : i \in 1 .. Len(tokenize(problem))}
        solution_words == {tokenize(solution)[i] : i \in 1 .. Len(tokenize(solution))}
        innovation_words ==
            {tokenize(innovation)[i] : i \in 1 .. Len(tokenize(innovation))}
        prob_sol_overlap ==
            Ratio(Cardinality(problem_words \cap solution_words),
                  AtLeast1(Cardinality(problem_words \cup solution_words)))
        sol_innov_overlap ==
            Ratio(Cardinality(solution_words \cap innovation_words),
                  AtLeast1(Cardinality(solution_words \cup innovation_words)))
        \* ((a + b) / 2) * 100 over a.d * b.d
        coherence_score ==
            [n |-> 50 * (prob_sol_overlap.n * sol_innov_overlap.d
                         + sol_innov_overlap.n * prob_sol_overlap.d),
             d |-> prob_sol_overlap.d * sol_innov_overlap.d]
    IN [problem_solution_coherence |->
            RoundDiv(1000 * prob_sol_overlap.n, prob_sol_overlap.d),
        solution_innovation_coherence |->
            RoundDiv(1000 * sol_innov_overlap.n, sol_innov_overlap.d),
        overall_coherence |-> RoundDiv(10 * coherence_score.n, coherence_score.d),
        shared_concepts |->
            problem_words \cap solution_words \cap innovation_words,
        is_coherent |-> coherence_score.n > 15 * coherence_score.d]

(***************************************************************************)
(* SpecText: the analyzer and the buzzword penalty called on short texts,  *)
(* the empty one among them.                                               *)
(***************************************************************************)
\* the texts of at most MaxTextWords words, in one piece or cut in two
AnalysedTexts ==
    UNION { {<<w>>} \cup { <<SubSeq(w, 1, c), SubSeq(w, c + 1, Len(w))>> :
                            c \in 0 .. Len(w) } :
            w \in UNION { [1 .. n -> Lexicon] : n \in 0 .. MaxTextWords } }
    \cup {<< >>}

\* the other two sections check_coherence is given
Sections == {<< >>, <<<<"api", "parking">>>>}

\* what _calculate_buzzword_penalty is given: a text with k buzzwords and
\* a word count
DensityInputs ==
    { [PlainProject(w) EXCEPT
          !.title_words = 0, !.solution_words = 0, !.tech_words = 0,
          !.innovation_words = 0, !.target_words = 0, !.future_words = 0,
          !.buzz_occ = [b \in BuzzLex |->
                          IF b \in present THEN 1 ELSE 0]] :
        w \in 0 .. MaxTextWords,
        present \in {{}, {"synergy"}, {"synergy", "disruptive"}} }

text_analyze ==
    /\ ret' = Call("analyze_text", "", analyze_text(form_data.problem))
    /\ UNCHANGED <<projects, store, storage_path, phase, clock, sessions,
                   subvars>>

text_coherence ==
    /\ ret' = Call("check_coherence", "",
                   check_coherence(form_data.problem, form_data.solution,
                                   form_data.innovation))
    /\ UNCHANGED <<projects, store, storage_path, phase, clock, sessions,
                   subvars>>

text_buzzwords(p) ==
    /\ ret' = Call("_calculate_buzzword_penalty", p,
                   calculate_buzzword_penalty(p))
    /\ UNCHANGED <<projects, store, storage_path, phase, clock, sessions,
                   subvars>>

InitText ==
    /\ projects = << >>
    /\ store = ListStore(<< >>)
    /\ storage_path = TRUE
    /\ phase = "ready"
    /\ ret = NoCall
    /\ clock = 1
    /\ sessions = NoSessions
    /\ cur_project = NoSubmission.project
    /\ cur_score = NoSubmission.score
    /\ float_err = NoSubmission.float_err
    /\ pc = NoSubmission.pc
    /\ form_data \in [problem : AnalysedTexts, solution : Sections,
                      innovation : Sections]
    /\ current_score = NoSubmission.current_score

NextText ==
    \/ text_analyze
    \/ text_coherence
    \/ \E p \in DensityInputs : text_buzzwords(p)

SpecText == InitText /\ [][NextText]_vars

(***************************************************************************)
(* Claims about the leaderboard, checked under SpecLB.                     *)
(***************************************************************************)
\* a is ranked no lower than b by (final_score, raw_score), descending
InOrder(a, b) ==
    \/ a.final_score > b.final_score
    \/ a.final_score = b.final_score /\ a.raw_score >= b.raw_score

Stamps(list) == { list[i].submitted_at : i \in 1 .. Len(list) }

\* C1: whatever was added before, get_rankings() returns all the entries
\* sorted descending by (final_score, raw_score), ranked 1..n in that order,
\* and the entry of rank 1 has a final score >= every other entry's.
C1_RankingsSorted ==
    ret.op = "get_rankings" =>
        LET r == ret.value
        IN /\ \A i, j \in 1 .. Len(r) : i < j => InOrder(r[i], r[j])
           /\ \A i \in 1 .. Len(r) : r[i].rank = i
           /\ \A i \in 1 .. Len(r) : r[1].final_score >= r[i].final_score
           /\ ret.arg = -1 =>
                /\ Len(r) = Len(projects)
                /\ Stamps(r) = Stamps(projects)

\* C1's case: a full ranking of three entries with a tie on the final score
\* that the raw score breaks, and a tie on both.
C1_Witness ==
    /\ ret.op = "get_rankings"
    /\ ret.arg = -1
    /\ Len(ret.value) = 3
    /\ \E i, j \in 1 .. 3 :
          /\ ret.value[i].final_score = ret.value[j].final_score
          /\ ret.value[i].raw_score > ret.value[j].raw_score
    /\ \E i, j \in 1 .. 3 :
          /\ i # j
          /\ ret.value[i].final_score = ret.value[j].final_score
          /\ ret.value[i].raw_score = ret.value[j].raw_score

\* C6: a step of add_project grows the list by exactly one entry, the new
\* one, keeps every earlier entry as it was, leaves the list sorted, and
\* returns the position of the first entry with the inserted title; that
\* entry is the new one when no other entry has the title.
C6_AddAppendsOne ==
    [][ clock' = clock + 1 =>
          LET new == { i \in 1 .. Len(projects') :
                          projects'[i].submitted_at = clock }
              titled == { i \in 1 .. Len(projects') :
                             projects'[i].project_title = ret'.arg }
          IN /\ ret'.op = "add_project"
             /\ Len(projects') = Len(projects) + 1
             /\ \A i \in 1 .. Len(projects) :
                   \E j \in 1 .. Len(projects') : projects'[j] = projects[i]
             /\ Cardinality(new) = 1
             /\ new \subseteq titled
             /\ \A i, j \in 1 .. Len(projects') :
                   i < j => InOrder(projects'[i], projects'[j])
             /\ ret'.value # -1 =>
                   /\ ret'.value \in titled
                   /\ \A i \in titled : ret'.value <= i
                   /\ Cardinality(titled) = 1 => ret'.value \in new
      ]_vars

\* C6's case: the added title was there already, and the returned rank is
\* the position of an older entry, not of the new one.
C6_Witness ==
    /\ ret.op = "add_project"
    /\ ret.value >= 1
    /\ Cardinality({ i \in 1 .. Len(projects) :
                       projects[i].project_title = ret.arg }) >= 2
    /\ projects[ret.value].submitted_at # clock - 1

\* C25: entries that tie on (final_score, raw_score) are ranked in the
\* order they were added: in every list the instance holds, after any
\* add_project, remove_project and reload of the store, the earlier-added of
\* two tied entries stands first, and a step of add_project leaves the
\* entries that were there in the order they had.
C25_TiesKeepInsertionOrder ==
    /\ [](\A i, j \in 1 .. Len(projects) :
             ( /\ i < j
               /\ projects[i].final_score = projects[j].final_score
               /\ projects[i].raw_score = projects[j].raw_score )
             => projects[i].submitted_at < projects[j].submitted_at)
    /\ [][clock' = clock + 1 =>
             SelectSeq(projects', LAMBDA e : e.submitted_at # clock) = projects
         ]_vars

\* two entries the instance added tie on both scores and have been saved
\* and loaded again, after another entry was removed
C25_Witness ==
    /\ ret.op = "__init__"
    /\ phase = "ready"
    /\ Len(projects) = 2
    /\ clock = 4
    /\ projects[1].final_score = projects[2].final_score
    /\ projects[1].raw_score = projects[2].raw_score
    /\ projects[1].submitted_at >= 1

\* C26: a step of remove_project(title) removes at most one entry.  If some
\* title matches case-insensitively, the first (highest-ranked) such entry
\* is taken out, every other entry stays, in the same order, and when the
\* call returns it returns True with the new list in the store (if there is
\* a storage path); if none matches it returns False and the list and the
\* store are as before.  A step of clear leaves the list empty.
C26_RemoveTakesOne ==
    [][ /\ ret'.op = "remove_project" =>
             LET matching == { i \in 1 .. Len(projects) :
                                 Lower(projects[i].project_title)
                                   = Lower(ret'.arg) }
             IN IF matching = {}
                THEN /\ ret'.value = "False"
                     /\ projects' = projects
                     /\ store' = store
                ELSE LET first == CHOOSE i \in matching :
                                     \A j \in matching : i <= j
                     IN /\ Len(projects') = Len(projects) - 1
                        /\ \A n \in 1 .. first - 1 : projects'[n] = projects[n]
                        /\ \A n \in first .. Len(projects') :
                               projects'[n] = projects[n + 1]
                        /\ ret'.value # "False"
                        /\ (ret'.value = "True" /\ storage_path) =>
                               store' = ListStore(projects')
        /\ ret'.op = "clear" => projects' = << >>
      ]_vars

\* remove_project has taken out the higher-ranked of two entries of one
\* title and left the other, which got a different score, in the list and
\* in the store
C26_Witness ==
    /\ storage_path
    /\ ret.op = "remove_project"
    /\ ret.value = "True"
    /\ \E i \in 1 .. Len(projects) :
          /\ Lower(projects[i].project_title) = Lower(ret.arg)
          /\ projects[i].final_score = 610
    /\ Len(projects) = 2
    /\ store = ListStore(projects)

\* C27: the list the instance holds is sorted, descending by (final_score,
\* raw_score), after every add_project, remove_project, clear and load; so
\* the winner and the runner-up explain_winner names are the entries of
\* rank 1 and 2 of get_rankings(), and the gap it reports is not negative.
C27_StoredListSorted ==
    /\ \A i, j \in 1 .. Len(projects) :
          i < j => InOrder(projects[i], projects[j])
    /\ (ret.op = "explain_winner" /\ Len(projects) >= 2) =>
          LET ranked == rankings(sort(projects), -1)
          IN /\ ret.value.kind = "lead"
             /\ ret.value.winner = ranked[1].project_title
             /\ ret.value.runner_up = ranked[2].project_title
             /\ ranked[1].rank = 1 /\ ranked[2].rank = 2
             /\ ranked[1].submitted_at = projects[1].submitted_at
             /\ ranked[2].submitted_at = projects[2].submitted_at
             /\ ret.value.score_diff >= 0
             /\ ret.value.score_diff
                  = ranked[1].final_score - ranked[2].final_score

\* explain_winner on a list of three whose runner-up has the winner's final
\* score and was added after the entry it stands above
C27_Witness ==
    /\ ret.op = "explain_winner"
    /\ Len(projects) = 3
    /\ ret.value.kind = "lead"
    /\ ret.value.score_diff = 0
    /\ projects[2].submitted_at > projects[3].submitted_at
    /\ ret.value.winner # ret.value.runner_up

\* C28 (the claim as stated): for every limit n >= 0, get_rankings(n)
\* returns exactly min(n, count) entries, the n highest-ranked ones, with
\* ranks 1 .. min(n, count) and is_top_3 true exactly for the ranks 1 to 3;
\* get_rankings() without a limit returns all entries; the entries returned
\* are copies, so that neither the list of the instance nor the store ever
\* holds a rank or an is_top_3 field.
C28_RankingsLimit ==
    /\ \A i \in 1 .. Len(projects) :
          {"rank", "is_top_3"} \cap DOMAIN projects[i] = {}
    /\ \A i \in 1 .. Len(store.data) :
          {"rank", "is_top_3"} \cap DOMAIN store.data[i] = {}
    /\ ret.op = "get_rankings" =>
          LET count == Len(projects)
              n == ret.arg
              size == IF n = -1 \/ count < n THEN count ELSE n
          IN /\ Len(ret.value) = size
             /\ \A i \in 1 .. Len(ret.value) :
                   /\ ret.value[i].rank = i
                   /\ ret.value[i].is_top_3 = (i <= 3)
                   /\ i <= count =>
                        ret.value[i].submitted_at = projects[i].submitted_at

ReadOnlyOps ==
    { "get_rankings", "get_project_rank", "get_statistics", "explain_winner",
      "get_comparison" }

\* C7: with a storage path, after a completed add_project or clear and after
\* a remove_project that removed an entry, the store holds the list of the
\* instance, in its order; the read-only calls and a remove_project without
\* a match leave the store as it was.
C7_MutationsPersisted ==
    [][ /\ ( /\ storage_path
             /\ \/ ret'.op = "add_project" /\ ret'.value # -1
                \/ ret'.op = "clear" /\ ret'.value = "ok"
                \/ ret'.op = "remove_project" /\ ret'.value = "True" )
           => store' = ListStore(projects')
        /\ ( \/ ret'.op \in ReadOnlyOps
             \/ ret'.op = "remove_project" /\ ret'.value = "False" )
           => store' = store
      ]_vars

\* C7's case: a remove_project took one of several entries out and the
\* store holds the remaining ones.
C7_Witness ==
    /\ storage_path
    /\ ret.op = "remove_project"
    /\ ret.value = "True"
    /\ Len(projects) >= 2
    /\ store = ListStore(projects)

\* C8: constructing a Leaderboard never surfaces an error, whatever the
\* store holds; over a store that is not a list it starts empty, and the
\* first add_project on it returns rank 1.
C8_LoadNeverRaises ==
    /\ phase # "raised"
    /\ ret.op = "__init__" /\ store.kind # "list" => projects = << >>
    /\ ret.op = "add_project" /\ Len(projects) = 1 => ret.value = 1

(***************************************************************************)
(* SpecSessions: two app sessions.  init_session_state gives each session  *)
(* its own Leaderboard over the same storage path; the sessions' scripts   *)
(* run in threads of one process, so their add_project calls interleave    *)
(* statement by statement.  The code takes no lock.                        *)
(***************************************************************************)
Sessions == {1, 2}

Put(s, rec) == [sessions EXCEPT ![s] = rec]

\* init_session_state: st.session_state.leaderboard = Leaderboard(path)
init_session_state(s) ==
    /\ sessions[s].pc = "new"
    /\ LET got == IF store.kind # "missing" THEN load(store)
                  ELSE [outcome |-> "ok", projects |-> << >>]
       IN sessions' = Put(s, [sessions[s] EXCEPT
              !.pc = IF got.outcome = "ok" THEN "idle" ELSE "raised",
              !.projects = got.projects])
    /\ UNCHANGED <<lbvars, subvars>>

\* add_project, lines 55-73: build the entry, append, sort
session_add_append(s, sc) ==
    /\ sessions[s].pc = "idle"
    /\ sessions[s].added = 0
    /\ sessions' = Put(s, [sessions[s] EXCEPT
           !.pc = "appended",
           !.title = sc.project_title,
           !.added = clock,
           !.projects = sort(Append(sessions[s].projects, Entry(sc, clock)))])
    /\ clock' = clock + 1
    /\ UNCHANGED <<projects, store, storage_path, phase, ret, subvars>>

\* _save, line 302: open(path, 'w') truncates the file
session_save_open(s) ==
    /\ sessions[s].pc = "appended"
    /\ store.writable
    /\ store' = [kind |-> "bad_json", data |-> << >>, writable |-> TRUE]
    /\ sessions' = Put(s, [sessions[s] EXCEPT !.pc = "opened"])
    /\ UNCHANGED <<projects, storage_path, phase, ret, clock, subvars>>

\* _save, line 303: json.dump(self.projects, f), and the file is closed
session_save_dump(s) ==
    /\ sessions[s].pc = "opened"
    /\ store' = ListStore(sessions[s].projects)
    /\ sessions' = Put(s, [sessions[s] EXCEPT !.pc = "saved"])
    /\ UNCHANGED <<projects, storage_path, phase, ret, clock, subvars>>

\* add_project, lines 78-83: the rank
session_add_return(s) ==
    /\ sessions[s].pc = "saved"
    /\ LET SameTitle(e) == e.project_title = sessions[s].title
       IN sessions' = Put(s, [sessions[s] EXCEPT
              !.pc = "idle",
              !.rank = FirstIndex(sessions[s].projects, 1, SameTitle,
                                  Len(sessions[s].projects))])
    /\ UNCHANGED <<lbvars, subvars>>

InitSessions ==
    /\ projects = << >>
    /\ store \in {[kind |-> "missing", data |-> << >>, writable |-> TRUE]}
                   \cup EarlierStores
    /\ storage_path = TRUE
    /\ phase = "new"
    /\ ret = NoCall
    /\ clock = 1
    /\ sessions = [s \in Sessions |->
                     [pc |-> "new", projects |-> << >>, title |-> "",
                      added |-> 0, rank |-> 0]]
    /\ cur_project = NoSubmission.project
    /\ cur_score = NoSubmission.score
    /\ float_err = NoSubmission.float_err
    /\ pc = NoSubmission.pc
    /\ form_data = NoSubmission.form_data
    /\ current_score = NoSubmission.current_score

NextSessions ==
    \E s \in Sessions :
        \/ init_session_state(s)
        \/ \E sc \in Results : session_add_append(s, sc)
        \/ session_save_open(s)
        \/ session_save_dump(s)
        \/ session_add_return(s)

SpecSessions == InitSessions /\ [][NextSessions]_vars

\* C5: add_project calls of concurrent callers are serialized, so once two
\* sessions over the same storage path have both completed an add_project,
\* the store holds both entries.
C5_NoLostUpdate ==
    (\A s \in Sessions : sessions[s].pc = "idle" /\ sessions[s].added > 0)
        => /\ store.kind = "list"
           /\ \A s \in Sessions : sessions[s].added \in Stamps(store.data)

(***************************************************************************)
(* Claims about the evaluation, checked under SpecEval and SpecBuzz.       *)
(***************************************************************************)
Evaluated == pc \in {"evaluated", "feedback"}

\* C2: every criterion score, the raw score and the final score of an
\* evaluation lie in [0, 100], the total penalty is at most 30, and the
\* evaluation never ends in the range validation's error.
C2_ScoresInRange ==
    /\ pc # "error"
    /\ Evaluated =>
        /\ \A x \in { cur_score.innovation_score,
                      cur_score.technical_depth_score,
                      cur_score.problem_relevance_score,
                      cur_score.feasibility_score,
                      cur_score.scalability_score,
                      cur_score.ui_ux_score,
                      cur_score.real_world_impact_score } :
              0 <= x /\ x <= 100
        /\ 0 <= cur_score.raw_score /\ cur_score.raw_score <= 1000
        /\ 0 <= cur_score.final_score /\ cur_score.final_score <= 1000
        /\ cur_score.total_penalty.n <= 30 * cur_score.total_penalty.d

\* evaluations where a cap acts: raw x multiplier - penalty exceeds 100 in
\* C2_Witness, the four penalties add up to more than 30 in C2_PenaltyCapped
PenaltySum(s) ==
    s.buzzword_penalty.n + s.vagueness_penalty.n + s.overclaim_penalty.n
    + s.ai_generated_penalty.n

C2_Witness ==
    /\ pc = "evaluated"
    /\ cur_score.final_score = 1000
    /\ cur_score.raw_score * 11 > 10000

C2_PenaltyCapped ==
    /\ pc = "evaluated"
    /\ PenaltySum(cur_score) > 30 * cur_score.total_penalty.d

\* C3 (the claim as stated): one more occurrence of a buzzword phrase never
\* decreases the buzzword penalty.
C3_BuzzwordMonotone ==
    [][cur_score'.buzzword_penalty.n * cur_score.buzzword_penalty.d
         >= cur_score.buzzword_penalty.n * cur_score'.buzzword_penalty.d]_vars

\* Scenario B: 150 words in all, the problem statement repeating three
\* buzzwords ten times each.
ScenarioB ==
    /\ pc = "evaluated"
    /\ get_word_count(cur_project) = 150
    /\ cur_project.buzz_occ["revolutionary"] = 10
    /\ cur_project.buzz_occ["game-changing"] = 10
    /\ cur_project.buzz_occ["disruptive"] = 10

\* C4 (the claim as stated): in scenario B the buzzword penalty is positive
\* and the final score is raw x multiplier less the total penalty.
C4_ScenarioBPenalised ==
    ScenarioB =>
        /\ cur_score.buzzword_penalty.n > 0
        /\ cur_score.total_penalty.n > 0
        /\ cur_score.final_score < cur_score.raw_score

\* The claimed formula, from the stored criterion scores and the stored
\* total penalty: [n, d], the value of clamp(raw x multiplier - penalty)
\* with the multipliers 1.10 = 22/20, 1.00 = 20/20, 0.95 = 19/20.
C9_Multiplier20 ==
    IF cur_project.team_size <= 2 /\ cur_project.tech_count <= 3 THEN 22
    ELSE IF cur_project.team_size >= 4 \/ cur_project.tech_count >= 6 THEN 19
    ELSE 20

C9_Raw100(s) ==
    25 * s.innovation_score + 20 * s.technical_depth_score
    + 15 * s.problem_relevance_score + 15 * s.feasibility_score
    + 10 * s.scalability_score + 10 * s.ui_ux_score
    + 5 * s.real_world_impact_score

C9_Claimed(raw100) ==
    LET pen == cur_score.total_penalty
        d == 2000 * pen.d
        n == raw100 * C9_Multiplier20 * pen.d - pen.n * 2000
    IN [n |-> IF n < 0 THEN 0 ELSE IF n > 100 * d THEN 100 * d ELSE n,
        d |-> d]

\* n/d lies within half a tenth of the value `tenths`
RoundsTo(n, d, tenths) ==
    /\ 2 * (10 * n - tenths * d) <= d
    /\ 2 * (tenths * d - 10 * n) <= d

\* C9: the final score is clamp(raw x multiplier - total penalty, 0, 100)
\* with the multiplier 1.10, 1.00 or 0.95 of the project's tier and the
\* unrounded weighted sum as raw; the stored final score is that value
\* rounded to one decimal.
C9_FinalFormula ==
    Evaluated =>
        LET f == C9_Claimed(C9_Raw100(cur_score))
        IN RoundsTo(f.n, f.d, cur_score.final_score)

\* an evaluation where the rounded raw score would give another final score
C9_Witness ==
    /\ pc = "evaluated"
    /\ cur_score.total_penalty.n > 0
    /\ C9_Multiplier20 # 20
    /\ LET g == C9_Claimed(10 * cur_score.raw_score)
       IN ~RoundsTo(g.n, g.d, cur_score.final_score)

\* the tier of a final score given as [n, d]
C10_TierOf(f) ==
    IF f.n >= 85 * f.d THEN "Winner Material"
    ELSE IF f.n >= 70 * f.d THEN "Strong Contender"
    ELSE IF f.n >= 50 * f.d THEN "Average"
    ELSE "Not Hackathon Ready"

C10_BracketOf(f) ==
    IF f.n < 50 * f.d THEN "Focus on One Thing"
    ELSE IF f.n < 70 * f.d THEN "Add Evidence"
    ELSE "Go Deep on Uniqueness"

HasLine(lines, head) == \E i \in 1 .. Len(lines) : lines[i].head = head

\* C10 (the claim as stated): the verdict tier, the suggestion bracket and
\* the no-demo weakness are decided on the unrounded final score.
C10_DecidedOnUnrounded ==
    pc = "feedback" =>
        LET f == C9_Claimed(C9_Raw100(cur_score))
        IN /\ cur_score.verdict = C10_TierOf(f)
           /\ cur_score.suggestions[1].head = C10_BracketOf(f)
           /\ HasLine(cur_score.weaknesses, "No Demo") => f.n < 80 * f.d

\* C10 as amended: the verdict tier, the suggestion bracket and the no-demo
\* weakness are decided on the final score rounded to one decimal, which is
\* also the final score the leaderboard entry holds and is ordered by; the
\* unrounded final score lies within 0.05 of it.
C10_DecidedOnRounded ==
    pc = "feedback" =>
        LET f == [n |-> cur_score.final_score, d |-> 10]
            u == C9_Claimed(C9_Raw100(cur_score))
        IN /\ cur_score.verdict = C10_TierOf(f)
           /\ cur_score.suggestions[1].head = C10_BracketOf(f)
           /\ HasLine(cur_score.weaknesses, "No Demo") =>
                 ~cur_project.demo_link /\ f.n < 80 * f.d
           /\ (~cur_project.demo_link /\ f.n < 80 * f.d
               /\ ~HasLine(cur_score.weaknesses, "No Demo")) =>
                 Len(cur_score.weaknesses) = 5
           /\ RoundsTo(u.n, u.d, cur_score.final_score)
           /\ ret.op = "add_project" =>
                 /\ \E i \in 1 .. Len(projects) :
                       /\ projects[i].submitted_at = 1
                       /\ projects[i].final_score = cur_score.final_score
                 /\ \A i, j \in 1 .. Len(projects) :
                       i < j => InOrder(projects[i], projects[j])

\* a project given its feedback and its leaderboard entry whose unrounded
\* final score is below a threshold by less than 0.05, no tie, and whose
\* rounded one is on it
C10_Witness ==
    /\ pc = "feedback"
    /\ ret.op = "add_project"
    /\ cur_score.final_score \in {500, 700, 800, 850}
    /\ LET u == C9_Claimed(C9_Raw100(cur_score))
       IN /\ 10 * u.n < cur_score.final_score * u.d
          /\ 2 * (cur_score.final_score * u.d - 10 * u.n) < u.d

\* the seven criterion scores of a ProjectScore
C11_Scores(s) ==
    { s.innovation_score, s.technical_depth_score, s.problem_relevance_score,
      s.feasibility_score, s.scalability_score, s.ui_ux_score,
      s.real_world_impact_score }

\* C11: the raw score is the sum of criterion score x weight / 100 with the
\* weights 25, 20, 15, 15, 10, 10, 5 (stored rounded to one decimal); the
\* configured weights are these and sum to 100, and the raw score lies
\* between the lowest and the highest criterion score.
C11_WeightedSum ==
    /\ weight = [ innovation |-> 25, technical_depth |-> 20,
                  problem_relevance |-> 15, feasibility |-> 15,
                  scalability |-> 10, ui_ux |-> 10, real_world_impact |-> 5 ]
    /\ weight.innovation + weight.technical_depth + weight.problem_relevance
       + weight.feasibility + weight.scalability + weight.ui_ux
       + weight.real_world_impact = 100
    /\ Evaluated =>
        /\ RoundsTo(C9_Raw100(cur_score), 100, cur_score.raw_score)
        /\ \A x \in C11_Scores(cur_score) :
              (\A y \in C11_Scores(cur_score) : x <= y)
                 => 10 * x <= cur_score.raw_score
        /\ \A x \in C11_Scores(cur_score) :
              (\A y \in C11_Scores(cur_score) : x >= y)
                 => cur_score.raw_score <= 10 * x

\* an evaluation whose criterion scores differ, with innovation and
\* technical depth apart, and whose raw score is strictly between them
C11_Witness ==
    /\ pc = "evaluated"
    /\ cur_score.innovation_score # cur_score.technical_depth_score
    /\ \E x, y \in C11_Scores(cur_score) :
          10 * x < cur_score.raw_score /\ cur_score.raw_score < 10 * y

\* the rational n/d equals the stored penalty
C12_Is(pen, n, d) == pen.d > 0 /\ pen.n * d = n * pen.d

C12_Least(a, b) == IF a <= b THEN a ELSE b

\* C12: each of the four penalties of an evaluated project is non-negative
\* and is the table's rule over the number of distinct lexicon phrases
\* found: buzzword min(15, (density - 5.0) * 2.0) when density = hits /
\* max(1, word_count) * 100 exceeds 5.0, else 0; vagueness
\* min(10, (hits - 3) * 1.5) when hits > 3, else 0; overclaim
\* min(15, hits * 3.0) when hits > 0, else 0; ai-generated 5.0 when
\* hits >= 5, else 0; and total_penalty is min(30, their sum).
C12_PenaltyRules ==
    Evaluated =>
        LET p == cur_project
            s == cur_score
            w == IF get_word_count(p) > 1 THEN get_word_count(p) ELSE 1
            hits == Cardinality({b \in DOMAIN p.buzz_occ : p.buzz_occ[b] >= 1})
            \* (density - 5.0) * 2.0 = (200 * hits - 10 * w) / w
            over == 200 * hits - 10 * w
            four == <<s.buzzword_penalty, s.vagueness_penalty,
                      s.overclaim_penalty, s.ai_generated_penalty>>
        IN /\ \A i \in 1..4 : four[i].n >= 0 /\ four[i].d = four[1].d
           /\ IF 100 * hits > 5 * w
              THEN C12_Is(s.buzzword_penalty, C12_Least(15 * w, over), w)
              ELSE s.buzzword_penalty.n = 0
           /\ IF p.vague_count > 3
              THEN C12_Is(s.vagueness_penalty,
                          C12_Least(20, 3 * (p.vague_count - 3)), 2)
              ELSE s.vagueness_penalty.n = 0
           /\ IF p.overclaim_count > 0
              THEN C12_Is(s.overclaim_penalty,
                          C12_Least(15, 3 * p.overclaim_count), 1)
              ELSE s.overclaim_penalty.n = 0
           /\ IF p.ai_pattern_count >= 5
              THEN C12_Is(s.ai_generated_penalty, 5, 1)
              ELSE s.ai_generated_penalty.n = 0
           /\ C12_Is(s.total_penalty,
                     C12_Least(30 * four[1].d,
                               four[1].n + four[2].n + four[3].n + four[4].n),
                     four[1].d)

\* an evaluated project whose buzzword penalty is capped at 15
C12_Witness ==
    /\ pc = "evaluated"
    /\ cur_score.buzzword_penalty.n = 15 * cur_score.buzzword_penalty.d
    /\ 200 * buzzword_count(cur_project)
         > 25 * get_word_count(cur_project)

\* C13: with every other field held fixed, giving the project a demo link
\* never decreases its feasibility score nor its UI/UX score, whatever the
\* other rule conditions are (the ambitious-scope deduction and the clamp at
\* 100 included).
C13_DemoNeverHurts ==
    [][(~cur_project.demo_link
        /\ cur_project' = [cur_project EXCEPT !.demo_link = TRUE])
       => /\ cur_score'.feasibility_score >= cur_score.feasibility_score
          /\ cur_score'.ui_ux_score >= cur_score.ui_ux_score]_vars

\* the link was added to an ambitious submission whose feasibility score
\* meets the clamp at 100
C13_Witness ==
    /\ pc = "evaluated"
    /\ cur_project.demo_link
    /\ cur_project.ambitious
    /\ cur_project.feasibility_count >= 5
    /\ cur_project.mentions_docs /\ cur_project.scope_indicator
    /\ cur_score.feasibility_score = 100
    /\ cur_score.ui_ux_score = 100

\* the numeric results of an evaluation
C14_Numbers(s) ==
    <<s.innovation_score, s.technical_depth_score, s.problem_relevance_score,
      s.feasibility_score, s.scalability_score, s.ui_ux_score,
      s.real_world_impact_score, s.buzzword_penalty, s.vagueness_penalty,
      s.overclaim_penalty, s.ai_generated_penalty, s.total_penalty,
      s.raw_score, s.final_score>>

\* those of them a leaderboard entry keeps
C14_Stored(e) ==
    <<e.innovation_score, e.technical_depth_score, e.problem_relevance_score,
      e.feasibility_score, e.scalability_score, e.ui_ux_score,
      e.real_world_impact_score, e.total_penalty, e.raw_score, e.final_score>>

C15_Kept(s) ==
    <<s.project_title, C14_Numbers(s),
      s.innovation_explanation, s.technical_depth_explanation,
      s.problem_relevance_explanation, s.feasibility_explanation,
      s.scalability_explanation, s.ui_ux_explanation,
      s.real_world_impact_explanation>>

\* C15: generate_feedback changes only strengths, weaknesses, suggestions,
\* verdict, verdict glyph and verdict explanation of the score record: every
\* criterion score, criterion explanation, penalty, the raw score and the
\* final score are what they were, whatever the random selections return.
C15_FeedbackFrame ==
    [][(pc = "evaluated" /\ pc' = "feedback") =>
         /\ C15_Kept(cur_score') = C15_Kept(cur_score)
         /\ DOMAIN cur_score' = DOMAIN cur_score
         /\ cur_project' = cur_project]_vars

\* feedback was written into a score whose final score is not a whole
\* number of points, with the third verdict template drawn
C15_Witness ==
    /\ pc = "feedback"
    /\ cur_score.verdict_explanation.choice = 3
    /\ cur_score.strengths # << >>
    /\ cur_score.weaknesses # << >>
    /\ cur_score.suggestions # << >>
    /\ cur_score.verdict # ""
    /\ cur_score.final_score % 10 # 0

C17_ShownTier(final) ==
    IF final = 514 THEN "beginner"
    ELSE IF final \in {467, 468} THEN "intermediate"
    ELSE IF final = 444 THEN "advanced"
    ELSE "none"

\* C17: the complexity tier is a total function of the team size (1 .. 10)
\* and the number of tech-stack items (>= 1): beginner iff team_size <= 2 and
\* tech_count <= 3; advanced iff team_size >= 4 or tech_count >= 6;
\* intermediate otherwise, that is team_size = 3 with tech_count <= 5 or
\* team_size <= 2 with tech_count in 4 .. 5; beginner and advanced never hold
\* together.
C17_ComplexityTier ==
    Evaluated =>
        LET ts == cur_project.team_size
            tc == cur_project.tech_count
            tier == determine_complexity(cur_project)
            beginner == ts <= 2 /\ tc <= 3
            advanced == ts >= 4 \/ tc >= 6
            intermediate == (ts = 3 /\ tc <= 5) \/ (ts <= 2 /\ tc \in 4 .. 5)
        IN /\ tier \in {"beginner", "intermediate", "advanced"}
           /\ tier = "beginner" <=> beginner
           /\ tier = "advanced" <=> advanced
           /\ tier = "intermediate" <=> intermediate
           /\ intermediate <=> (~beginner /\ ~advanced)
           /\ ~(beginner /\ advanced)
           /\ C17_ShownTier(cur_score.final_score) = tier

\* a team of two with five tech-stack items was scored as intermediate
C17_Witness ==
    /\ pc = "evaluated"
    /\ cur_project.team_size = 2
    /\ cur_project.tech_count = 5
    /\ cur_score.final_score \in {467, 468}

\* the two suggestions every final-score bracket opens with
C18_Pair(final) ==
    IF final < 500
    THEN <<"Focus on One Thing", "Build First, Describe Later">>
    ELSE IF final < 700 THEN <<"Add Evidence", "Record a Demo">>
    ELSE <<"Go Deep on Uniqueness", "Show Growth Potential">>

\* C18: after generate_feedback the strengths, the weaknesses and the
\* suggestions hold 5 entries each at most; the strengths are never empty
\* (the best criterion is listed when nothing else is); the suggestions hold
\* 2 entries at least, the first two being the pair of the final score's
\* bracket (below 50, 50 up to 70, 70 and above).
C18_FeedbackSizes ==
    pc = "feedback" =>
        /\ Len(cur_score.strengths) \in 1 .. 5
        /\ Len(cur_score.weaknesses) \in 0 .. 5
        /\ Len(cur_score.suggestions) \in 2 .. 5
        /\ <<cur_score.suggestions[1].head, cur_score.suggestions[2].head>>
             = C18_Pair(cur_score.final_score)

\* a project with no strength of its own: the best criterion is listed, and
\* the suggestions were cut to five
C18_Witness ==
    /\ pc = "feedback"
    /\ Len(cur_score.strengths) = 1
    /\ cur_score.strengths[1].head = ""
    /\ cur_score.strengths[1].criterion # ""
    /\ Len(cur_score.suggestions) = 5
    /\ Len(cur_score.weaknesses) = 5

\* C19 (the claim as stated): explain_winner returns the "no projects"
\* message for an empty leaderboard and the single-entry message for one
\* entry; otherwise it labels the gap g = final(#1) - final(#2) dominating
\* iff g >= 20, convincing iff 10 <= g < 20, solid iff 5 <= g < 10, narrow
\* iff g < 5, lists 3 criteria at most and only criteria where #1 strictly
\* exceeds #2, and lists one criterion at least whenever the raw score of #1
\* exceeds that of #2.
C19_WinnerExplained ==
    ret.op = "explain_winner" =>
        LET e == ret.value
        IN /\ Len(projects) = 0 => e.kind = "no projects"
           /\ Len(projects) = 1 =>
                 e.kind = "only submission"
                 /\ e.winner = projects[1].project_title
           /\ Len(projects) >= 2 =>
                 LET g == projects[1].final_score - projects[2].final_score
                 IN /\ e.kind = "lead"
                    /\ e.intensity = "dominating" <=> g >= 200
                    /\ e.intensity = "convincing" <=> (100 <= g /\ g < 200)
                    /\ e.intensity = "solid" <=> (50 <= g /\ g < 100)
                    /\ e.intensity = "narrow" <=> g < 50
                    /\ Len(e.top_advantages) <= 3
                    /\ \A i \in 1 .. Len(e.top_advantages) :
                          projects[1][e.top_advantages[i]]
                            > projects[2][e.top_advantages[i]]
                    /\ projects[1].raw_score > projects[2].raw_score
                          => Len(e.top_advantages) >= 1

C20_TierCounts ==
    {"winner_material_count", "strong_contender_count", "average_count",
     "not_ready_count"}

\* C20 (the claim as stated): for every leaderboard state, the empty one
\* included, get_statistics reports the count, mean, maximum, minimum and
\* range of the final scores together with the four per-verdict-tier counts;
\* the tier counts sum to the count, range = maximum - minimum, minimum <=
\* mean <= maximum, and the result is that of the current collection.
C20_Statistics ==
    ret.op = "get_statistics" =>
        LET s == ret.value
            n == Len(projects)
        IN /\ {"total_projects", "average_score", "highest_score",
                "lowest_score", "score_range"} \subseteq DOMAIN s
           /\ C20_TierCounts \subseteq DOMAIN s
           /\ s.total_projects = n
           /\ s.winner_material_count + s.strong_contender_count
                + s.average_count + s.not_ready_count = n
           /\ n = 0 => s.average_score = 0 /\ s.score_range = 0
           /\ n > 0 =>
                /\ s.highest_score = Max(Finals(projects))
                /\ s.lowest_score = Min(Finals(projects))
                /\ s.score_range.tenths = s.highest_score - s.lowest_score
                /\ s.lowest_score <= s.average_score
                /\ s.average_score <= s.highest_score
                /\ 2 * n * s.average_score - 2 * SumFinal(projects) \in -n .. n

(***************************************************************************)
(* Claims about the submit handler, checked under SpecSubmit.              *)
(***************************************************************************)
\* C21: a submission that fails validation never reaches the scoring path:
\* the handler's one step ends it with no evaluate_project, generate_feedback
\* or add_project call (the score under way and the last leaderboard call
\* stay as they were), and the leaderboard collection, the persisted store
\* and st.session_state.current_score are unchanged, then and until the
\* button is pressed again; the same holds of a run ended by an exception
\* of the construction or the evaluation.
C21_RejectedLeavesNoTrace ==
    [][/\ (pc = "form" /\ ~validate_project_data(form_data).is_valid) =>
            /\ pc' = "rejected"
            /\ UNCHANGED <<projects, store, current_score, cur_score, ret>>
       /\ pc' = "error" => UNCHANGED <<projects, store, current_score>>
       /\ pc \in {"rejected", "error"} =>
            /\ pc' \in {pc, "form"}
            /\ UNCHANGED <<projects, store, current_score>>]_vars

\* a form is rejected after another one went all the way to the leaderboard
C21_Witness ==
    /\ pc = "rejected"
    /\ Len(validate_project_data(form_data).errors) >= 2
    /\ Len(projects) >= 1
    /\ current_score # << >>

\* the verdict of a final score (in tenths) by the thresholds 85 / 70 / 50
C24_Tier(final) ==
    IF final >= 850 THEN "Winner Material"
    ELSE IF final >= 700 THEN "Strong Contender"
    ELSE IF final >= 500 THEN "Average"
    ELSE "Not Hackathon Ready"

C24_Carrying(v) == Cardinality({i \in 1 .. Len(projects) : projects[i].verdict = v})

\* C24: the handler's steps run in the order validate and construct,
\* evaluate_project, generate_feedback, add_project (then the score is
\* shown), and add_project is passed the score generate_feedback returned;
\* so every entry of the leaderboard carries a non-empty verdict, the tier
\* of its final_score, and the four tier counts get_statistics reports for
\* these entries are the numbers of entries carrying each verdict.
C24_PipelineOrder ==
    /\ [][/\ pc' # pc =>
               <<pc, pc'>> \in
                 {<<"form", "rejected">>, <<"form", "submitted">>,
                  <<"submitted", "evaluated">>, <<"submitted", "error">>,
                  <<"evaluated", "feedback">>, <<"feedback", "shown">>,
                  <<"rejected", "form">>, <<"error", "form">>,
                  <<"shown", "form">>}
          /\ projects' # projects =>
               /\ pc = "feedback" /\ pc' = "feedback"
               /\ cur_score.verdict # ""
               /\ \E i \in 1 .. Len(projects') :
                    /\ projects'[i].submitted_at = clock
                    /\ projects'[i].verdict = cur_score.verdict
                    /\ projects'[i].final_score = cur_score.final_score
          /\ pc' = "shown" => ret.op = "add_project"]_vars
    /\ [](/\ \A i \in 1 .. Len(projects) :
               /\ projects[i].verdict # ""
               /\ projects[i].verdict = C24_Tier(projects[i].final_score)
          /\ (ret.op = "get_statistics" /\ projects # << >>) =>
               /\ ret.value.winner_material_count = C24_Carrying("Winner Material")
               /\ ret.value.strong_contender_count = C24_Carrying("Strong Contender")
               /\ ret.value.average_count = C24_Carrying("Average")
               /\ ret.value.not_ready_count = C24_Carrying("Not Hackathon Ready"))

\* the statistics of a leaderboard to which the handler added an "Average"
\* and a "Strong Contender" entry
C24_Witness ==
    /\ ret.op = "get_statistics"
    /\ pc = "shown"
    /\ Len(projects) = 2
    /\ projects[1].verdict = "Strong Contender"
    /\ projects[2].verdict = "Average"
    /\ ret.value.strong_contender_count = 1
    /\ ret.value.average_count = 1

(***************************************************************************)
(* Claims about the text analysis, checked under SpecText.                 *)
(***************************************************************************)
\* C22: text of zero words never causes an error: no call of analyze_text
\* raises, and for a text without a word (after tokenizing) it returns
\* vocabulary_richness 0, technical_ratio 0 and readability 50;
\* check_coherence on three sections without a word returns overlaps of 0
\* and is_coherent false; the buzzword density for word_count 0 is the
\* buzzword count over 1, so the penalty is 0 without a buzzword and
\* min(15, (100 * count - 5) * 0.5) with some.
C22_EmptyTextIsSafe ==
    /\ ret.op = "analyze_text" =>
         /\ "raised" \notin DOMAIN ret.value
         /\ tokenize(form_data.problem) = << >> =>
              /\ ret.value.vocabulary_richness = 0
              /\ ret.value.technical_ratio = 0
              /\ ret.value.readability_score = 500
    /\ ( /\ ret.op = "check_coherence"
         /\ tokenize(form_data.problem) = << >>
         /\ tokenize(form_data.solution) = << >>
         /\ tokenize(form_data.innovation) = << >> ) =>
         /\ ret.value.problem_solution_coherence = 0
         /\ ret.value.solution_innovation_coherence = 0
         /\ ret.value.overall_coherence = 0
         /\ ~ret.value.is_coherent
    /\ (ret.op = "_calculate_buzzword_penalty" /\ get_word_count(ret.arg) = 0) =>
         LET count == buzzword_count(ret.arg)
             due == IF count = 0 THEN 0
                    ELSE IF (100 * count - 5) > 30 THEN 30
                    ELSE 100 * count - 5        \* in halves of a point
         IN ret.value.n * 2 = due * ret.value.d

\* analyze_text has returned for a text of two pieces in which no word is
\* left after tokenizing
C22_Witness ==
    /\ ret.op = "analyze_text"
    /\ Len(form_data.problem) = 2
    /\ Flatten(form_data.problem) # << >>
    /\ tokenize(form_data.problem) = << >>
    /\ ret.value.sentence_count >= 1
    /\ ret.value.readability_score = 500

(***************************************************************************)
(* Claims about the scores of plain submissions, checked under SpecEval.   *)
(***************************************************************************)
\* the values the seven scorers start from, in the order of criteria_scores
C23_Base == <<50, 40, 50, 45, 45, 50, 50>>

C23_AtOrBelowBase(s) ==
    \A i \in 1 .. 7 : criteria_scores(s)[i].score <= C23_Base[i]

\* C23: a project without a demo link, each of whose criterion scores is at
\* or below the scorer's base value (50/40/50/45/45/50/50), has a final score
\* below 70 whatever its complexity tier and penalties, and its verdict is
\* "Average" or "Not Hackathon Ready".
C23_PlainStaysBelow70 ==
    (Evaluated /\ ~cur_project.demo_link /\ C23_AtOrBelowBase(cur_score)) =>
        /\ cur_score.final_score < 700
        /\ pc = "feedback" =>
             cur_score.verdict \in {"Average", "Not Hackathon Ready"}

\* a beginner team whose seven scores are the base values, without a demo
\* and without a penalty: 46.75 * 1.1, "Average"
C23_Witness ==
    /\ pc = "feedback"
    /\ ~cur_project.demo_link
    /\ \A i \in 1 .. 7 : criteria_scores(cur_score)[i].score = C23_Base[i]
    /\ determine_complexity(cur_project) = "beginner"
    /\ cur_score.final_score = 514
    /\ cur_score.verdict = "Average"

(***************************************************************************)
(* Claims about the feedback, checked under SpecEval.                      *)
(***************************************************************************)
\* C29 (the claim as stated): no criterion is reported both as a strength
\* and as a weakness by generate_feedback: a criterion named in a line of
\* the strengths, the force-included best criterion too, is named in no line
\* of the weaknesses.
C29_NoCriterionBoth ==
    pc = "feedback" =>
        \A i \in 1 .. Len(cur_score.strengths) :
        \A j \in 1 .. Len(cur_score.weaknesses) :
            cur_score.strengths[i].criterion # ""
              => cur_score.strengths[i].criterion
                   # cur_score.weaknesses[j].criterion

\* what C30 asks two calls to agree on
C30_Visible(s) ==
    [strengths |-> s.strengths,
     weaknesses |-> s.weaknesses,
     suggestions |-> s.suggestions,
     verdict |-> s.verdict,
     verdict_emoji |-> s.verdict_emoji,
     template |-> s.verdict_explanation.template]

\* C30: every criterion explanation of a score made by evaluate_project is
\* longer than 20 characters, so _get_weakness_detail returns the
\* explanation whatever random.choice would draw; and generate_feedback
\* called again on the same project and score, random.choice drawing the
\* k-th element each time for k = 1, 2, 3, gives
\* the same strengths, weaknesses, suggestions, verdict and verdict glyph
\* (the verdict explanation alone follows the draw).
C30_FeedbackIgnoresRandom ==
    /\ pc = "evaluated" =>
         \A i \in 1 .. 7 :
            LET c == criteria_scores(cur_score)[i]
            IN /\ ExplanationLen(c.explanation) > 20
               /\ \A pick \in 1 .. 3 :
                     get_weakness_detail(c.criterion, c.explanation, pick)
                       = c.explanation
    /\ pc = "feedback" =>
         \A k \in 1 .. 3 :
            C30_Visible(generate_feedback(cur_project, cur_score,
                                          [verdict |-> k,
                                           detail |-> [i \in 1 .. 4 |-> k]]))
              = C30_Visible(cur_score)

\* feedback whose weaknesses list innovation with its default phrase, the
\* 24 characters of "Average innovation level", as the detail
C30_Witness ==
    /\ pc = "feedback"
    /\ \E j \in 1 .. Len(cur_score.weaknesses) :
         /\ cur_score.weaknesses[j].criterion = "innovation"
         /\ cur_score.weaknesses[j].detail = <<"Average innovation level">>
         /\ ExplanationLen(cur_score.weaknesses[j].detail) = 24

====
